---- MODULE Spec2Model ----
(***************************************************************************)
(* A model of the Pytron client library (src/package/index.js, the stable  *)
(* client, and the earlier clients src/unnamed/part_000 and part_001).     *)
(*                                                                         *)
(* The module holds several specifications over one set of variables, one  *)
(* per subsystem of the client; a specification leaves the variables of    *)
(* the other subsystems at their initial values.                           *)
(*   SpecCall   readiness check, readiness wait, dynamic call              *)
(*   SpecBus    subscription, removal and delivery of events               *)
(*   SpecState  pushed state updates and plugin loading                    *)
(*   SpecAsset  asset resolver and fetch interceptor                       *)
(*   SpecDom    DOM watcher: startup scan, mutations, src rewriting        *)
(*   SpecSync   initial state sync racing with pushed updates              *)
(*   SpecFacade property reads through the Proxy                           *)
(*   SpecEmit   delivery through the callback registries                   *)
(*   SpecAttach the attach step of module load and the readiness verdict   *)
(* FairSpecCall and FairSpecSync add the fairness of timers and answers.   *)
(***************************************************************************)
EXTENDS Integers, Sequences, FiniteSets, TLC

VARIABLES
    variant,       \* which client is loaded: "stable" (index.js), "autowait" (part_000), "early" (part_001)
    nativeBridge,  \* typeof window.__pytron_native_bridge === 'function'
    winPytron,     \* window.pytron
    globals,       \* the names g for which typeof window[g] === 'function'
    pywebviewApi,  \* window.pywebview.api: whether it is there, and its method names
    call,          \* the dynamic call, or explicit waitForBackend, in flight
    signalSeen,    \* history: a readiness signal was present at some moment of the current wait
    winListeners,  \* the listeners added to window by pytron.on, in the order added
    eventWrappers, \* the Map eventWrappers: callback -> wrapper (0: no entry)
    nextWrapper,   \* the number of wrapper closures created so far
    listeners,     \* event -> callbacks: pytronApi.events.listeners; `listeners` of part_000 / part_001
    delivered,     \* the callback invocations of the latest dispatch, in order
    lastDispatch,  \* the event of the latest dispatch
    hist,          \* history: the on/off calls made so far, in order
    mirror,        \* the local state mirror `state`
    received,      \* the callback invocations made by the events the client dispatched
    pushes,        \* history: the payloads of the 'pytron:state-update' events so far
    lastOp,        \* history: what the latest step of the state subsystem was
    loadedPlugins, \* window.__pytron_loaded_plugins
    scripts,       \* the plugin script elements appended to document.head
    widgets,       \* per slot container, the widget elements appended to it
    hasVap,        \* typeof window.__pytron_vap_get === 'function'
    hasLegacy,     \* typeof window.pytron_get_asset === 'function'
    assetCall,     \* per requester, the call of pytronApi.asset it has in flight
    lastAnswer,    \* history: the answer of the backend the latest step delivered, if any
    fetchReq,      \* the call of the intercepted window.fetch in flight
    observing,     \* the MutationObserver has been started and the initial scan made
    doc,           \* per element: in the document or not, tagName, src/href, __pytron_loading, __pytron_blob_url
    domCall,       \* per element, the call of pytronApi.asset its handler awaits
    objectUrls,    \* the object URLs created by URL.createObjectURL, each with its blob, revoked or not
    created,       \* the script elements created to replace resolved ones
    hasSyncFn,     \* typeof window.pytron_sync_state === 'function'
    sync,          \* the initial sync: where it is, its attempt number, the reply it awaits
    bound,         \* the property keys p for which `p in pytronApi` holds
    throwers,      \* the callbacks that throw when they are invoked
    lastGet        \* the latest property read through the Proxy and what it returned

envVars == <<nativeBridge, winPytron, globals, pywebviewApi>>
callVars == <<envVars, call, signalSeen>>
busVars == <<winListeners, eventWrappers, nextWrapper, listeners, delivered, lastDispatch, hist>>

stateVars == <<received, pushes, lastOp, loadedPlugins, scripts, widgets>>

assetVars == <<hasVap, hasLegacy, assetCall, lastAnswer, fetchReq>>

domVars == <<observing, doc, domCall, objectUrls, created>>

syncVars == <<hasSyncFn, sync>>

facadeVars == <<bound, lastGet>>

\* what each subsystem leaves alone
notCallVars == <<busVars, mirror, stateVars, assetVars, domVars, syncVars, facadeVars, throwers>>
notBusVars == <<callVars, stateVars, assetVars, domVars, syncVars, facadeVars, throwers>>
notStateVars == <<callVars, assetVars, domVars, syncVars, facadeVars, throwers>>
notAssetVars == <<variant, callVars, busVars, mirror, stateVars, domVars, syncVars, facadeVars, throwers>>
notDomVars == <<variant, callVars, busVars, mirror, stateVars, assetCall, fetchReq, syncVars, facadeVars, throwers>>
notSyncVars == <<variant, envVars, call, signalSeen, assetVars, domVars, facadeVars, throwers>>
notFacadeVars == <<variant, busVars, mirror, stateVars, assetVars, domVars, syncVars, throwers>>

vars == <<variant, callVars, busVars, mirror, stateVars, assetVars, domVars, syncVars, facadeVars,
          throwers>>

-----------------------------------------------------------------------------
(* Values *)

Undefined == "undefined"

\* Method names a page calls through the facade; none is a property of pytronApi.
MethodNames == {"foo", "close"}

\* `pytron_${String(prop)}`
Namespaced(name) == "pytron_" \o name

\* The global function names the model lets the environment define.
GlobalNames == {"foo", "pytron_foo", "pytron_close", "pytron_drag"}

\* Longest argument list of a modelled call.
MaxArgs == 2

ArgValues == {"a"}

ArgLists == UNION {[1..n -> ArgValues] : n \in 1..MaxArgs}

\* What the backend answers to an invocation: a value, or an error it raises.
Resolved(v) == [kind |-> "resolved", value |-> v]
Rejected(e) == [kind |-> "rejected", value |-> e]
NoOutcome == [kind |-> "none", value |-> Undefined]
TransportResults == {Resolved("r"), Rejected("E")}

NotConnected == "Pytron backend not connected"
\* A mutant of MethodNotFound: the message does not name the method.
MethodNotFoundUnnamed(name) == "Method not found."
\* new Error(`Method '${directName}' not found.`)   (index.js 314)
MethodNotFound(name) == "Method '" \o name \o "' not found."
LegacyMethodNotFound(name) == "Method '" \o name \o "' not found on Pytron backend."

\* window.pytron: absent, the client's own facade, or an object the backend installed.
Absent == [present |-> FALSE, is_ready |-> FALSE, is_proxy |-> FALSE]
Facade == [present |-> TRUE, is_ready |-> TRUE, is_proxy |-> TRUE]
BackendObject(ready) == [present |-> TRUE, is_ready |-> ready, is_proxy |-> FALSE]
WinPytronValues == {Absent, Facade, BackendObject(TRUE), BackendObject(FALSE)}

\* setInterval(..., 50) of waitForBackend
PollInterval == 50
\* waitForBackend(2000) of the dynamic wrapper
CallTimeout == 2000
\* waitForBackend(timeout = 3000)
DefaultTimeout == 3000
\* the timeout of the test's waitForBackend(100)
TestTimeout == 100
ExplicitTimeouts == {0, TestTimeout, DefaultTimeout}

\* setInterval(..., 100) of waitFor (part_000)
LegacyPollInterval == 100
\* target.waitForBackend(2000) of the auto-wait wrapper (part_000)
LegacyCallTimeout == 2000

-----------------------------------------------------------------------------
(* Values of the event bus and of the state mirror *)

\* JavaScript values that events and the mirror carry
JsUndefined == [t |-> "undefined", s |-> "", l |-> <<>>]
JsNull == [t |-> "null", s |-> "", l |-> <<>>]
Str(x) == [t |-> "str", s |-> x, l |-> <<>>]
List(q) == [t |-> "list", s |-> "", l |-> q]

MirrorKeys == {"k", "plugins"}
EmptyMirror == [key \in MirrorKeys |-> JsUndefined]

\* What a callback can be handed: a plain value, an update object {key, value}, a
\* copy of the mirror, or the Event object itself.
Val(v) == [tag |-> "value", val |-> v, key |-> "", type |-> "", snap |-> EmptyMirror]
Upd(k, v) == [tag |-> "update", val |-> v, key |-> k, type |-> "", snap |-> EmptyMirror]
Snap(m) == [tag |-> "state", val |-> JsUndefined, key |-> "", type |-> "", snap |-> m]
EventObj(type) ==
    [tag |-> "event", val |-> JsUndefined, key |-> "", type |-> type, snap |-> EmptyMirror]
NoDetail == Val(JsUndefined)

\* new CustomEvent(type, {detail}): an undefined detail is the default, null
CustomEvent(type, detail) ==
    [type |-> type, detail |-> IF detail = NoDetail THEN Val(JsNull) ELSE detail]
\* new Event(type): no detail property
PlainEvent(type) == [type |-> type, detail |-> NoDetail]
NoEvent == [type |-> "", detail |-> NoDetail]

EventNames == {"e1", "e2"}
Callbacks == {"cb1", "cb2"}
StateEvent(k) == "state:" \o k
AllEventNames ==
    EventNames \cup {"pytron:state-update", "pytron:state"}
        \cup {StateEvent(k) : k \in MirrorKeys}
BusPayloads == {Val(Str("d"))}

\* The number of on/off calls of a modelled run.
MaxBusOps == 3

NoListeners == [e \in AllEventNames |-> <<>>]

BusInitial ==
    /\ winListeners = <<>>
    /\ eventWrappers = [cb \in Callbacks |-> 0]
    /\ nextWrapper = 0
    /\ listeners = NoListeners
    /\ delivered = <<>>
    /\ lastDispatch = NoEvent
    /\ hist = <<>>

\* The callbacks of a run in which no callback throws.
NoThrowers == throwers = {}

IdleCall ==
    [pc |-> "idle", kind |-> "none", name |-> "", args |-> <<>>, timeout |-> 0,
     elapsed |-> 0, via |-> "none", avail |-> {}, invoked |-> <<>>,
     ret |-> NoOutcome, outcome |-> NoOutcome, log |-> "none",
     timer |-> FALSE, settles |-> 0]

\* Plugin descriptors {name, ui_entry, slot}: one with a UI entry and a slot, one
\* with no UI entry.
PluginP == [name |-> "p", ui_entry |-> "p.js", slot |-> "s"]
PluginQ == [name |-> "q", ui_entry |-> "", slot |-> ""]
PluginDescriptors == {PluginP, PluginQ}

\* The plugin lists pushed as the value of 'plugins'.
PluginLists == {<<PluginP>>, <<PluginP, PluginP>>, <<PluginQ, PluginP>>}

\* The elements of the document carrying data-pytron-slot, and their slot.
Containers == {"c1", "c2"}
SlotOf(c) == IF c = "c1" THEN "s" ELSE "t"

\* The number of state updates pushed in a modelled run.
MaxPushes == 2
\* The number of plugin script elements of a modelled run.
MaxScripts == 2

StateInitial ==
    /\ received = <<>>
    /\ pushes = <<>>
    /\ lastOp = "none"
    /\ loadedPlugins = {}
    /\ scripts = <<>>
    /\ widgets = [c \in Containers |-> <<>>]

\* Strings that are taken apart (URLs, keys) are sequences of pieces: a scheme
\* prefix, the separators ? and #, and runs of other characters.
Scheme == "pytron://"
Separators == {"?", "#"}
KeyIcon == <<"icon">>
DataUri == <<"data:", "x">>
FetchUrls ==
    {<<Scheme, "icon">>, <<Scheme, "icon", "?", "v">>, <<Scheme, "icon", "#", "f">>,
     <<"http://", "x">>, <<"http://", "x", "?", Scheme, "icon">>}

\* Answers of window.__pytron_vap_get: an asset {raw, mime}, a truthy value with
\* no raw string, null, or an exception
VapAsset(raw, mime) == [t |-> "asset", raw |-> raw, mime |-> mime, data |-> <<>>]
\* Answers of window.pytron_get_asset: an asset {data}, null, or an exception
LegacyAsset(data) == [t |-> "asset", raw |-> <<>>, mime |-> "", data |-> data]
Answer(t) == [t |-> t, raw |-> <<>>, mime |-> "", data |-> <<>>]
VapAnswers ==
    {VapAsset(<<0, 1, 2>>, "image/png"), VapAsset(<<321>>, "text/css"),
     Answer("malformed"), Answer("null"), Answer("throw")}
LegacyAnswers == {LegacyAsset(DataUri), Answer("null"), Answer("throw")}

\* Results of pytronApi.asset
Blob(bytes, mime) == [t |-> "blob", bytes |-> bytes, mime |-> mime, data |-> <<>>]
DataRef(data) == [t |-> "data", bytes |-> <<>>, mime |-> "", data |-> data]
NullResult == [t |-> "null", bytes |-> <<>>, mime |-> "", data |-> <<>>]

Requesters == {"page", "fetch"}
IdleAsset ==
    [pc |-> "idle", key |-> <<>>, calls |-> <<>>, result |-> NullResult,
     threw |-> FALSE, logged |-> FALSE]
IdleFetch == [pc |-> "idle", url |-> <<>>, origCalls |-> <<>>, response |-> NullResult]

\* The elements the model follows, and the tag names the watcher handles (228).
Elements == {"el1", "el2"}
\* The tags of the elements the page inserts later; the <img> elements of a run are
\* those of the initial document.
Tags == {"SCRIPT", "LINK"}

\* Values of an element's src (href for a LINK).
UrlIcon == <<Scheme, "icon">>
UrlLogoQuery == <<Scheme, "logo", "?", "v">>
UrlPlain == <<"http://", "x">>
DomUrls == {UrlIcon, UrlLogoQuery, UrlPlain}

\* The URL string URL.createObjectURL returns for the n-th object of the registry.
BlobUrl(n) == <<"blob:", ToString(n)>>

\* An element: blobUrl is el.__pytron_blob_url, 0 when unset.
Element(tag, url) ==
    [present |-> TRUE, tag |-> tag, url |-> url, loading |-> FALSE, blobUrl |-> 0,
     inflight |-> 0, racedKey |-> <<>>]
NoElement ==
    [present |-> FALSE, tag |-> "IMG", url |-> UrlPlain, loading |-> FALSE, blobUrl |-> 0,
     inflight |-> 0, racedKey |-> <<>>]

\* The elements a document may hold when the client script runs.
InitialElements ==
    {NoElement, Element("IMG", UrlIcon), Element("IMG", UrlPlain), Element("SCRIPT", UrlIcon)}

\* The answers of window.__pytron_vap_get to the calls made for elements.
DomVapAnswers == {VapAsset(<<0, 1, 2>>, "image/png"), Answer("null"), Answer("throw")}

\* Most object URLs created in a modelled run.
MaxObjectUrls == 2

DomInitial ==
    /\ observing = FALSE
    /\ doc = [el \in Elements |-> NoElement]
    /\ domCall = [el \in Elements |-> IdleAsset]
    /\ objectUrls = <<>>
    /\ created = <<>>

\* Replies of the backend to pytron_sync_state: a snapshot of its state, a falsy
\* value, or a rejection.
NoReply == [t |-> "none", snap |-> EmptyMirror]
SnapshotReply(m) == [t |-> "snapshot", snap |-> m]
NullReply == [t |-> "null", snap |-> EmptyMirror]
RejectReply == [t |-> "reject", snap |-> EmptyMirror]

\* for (let i = 0; i < 5; i++)
SyncAttempts == 5

\* The initial sync before waitForBackend(3000) has resolved.
IdleSync == [pc |-> "wait", i |-> 0, via |-> "", reply |-> NoReply, calls |-> 0]

SyncInitial ==
    /\ hasSyncFn = FALSE
    /\ sync = IdleSync

\* Property keys: a string, or a symbol.
Name(n) == [sym |-> FALSE, name |-> n]
Sym(n) == [sym |-> TRUE, name |-> n]

\* The own keys of pytronApi (60-150) and keys it inherits from Object.prototype.
OwnKeys ==
    {"state", "is_ready", "__is_proxy", "waitForBackend", "events", "on", "off", "log",
     "publish", "asset"}
InheritedKeys == {"toString", "constructor"}

\* What a read through the Proxy returns.
NothingGot == [prop |-> Name(""), kind |-> "none", name |-> ""]
LocalValue(prop) == [prop |-> prop, kind |-> "local", name |-> ""]
UndefinedValue(prop) == [prop |-> prop, kind |-> "undefined", name |-> ""]
Callable(prop) == [prop |-> prop, kind |-> "callable", name |-> prop.name]

FacadeInitial ==
    /\ bound = {Name(n) : n \in OwnKeys \cup InheritedKeys}
    /\ lastGet = NothingGot

AssetInitial ==
    /\ hasVap = FALSE
    /\ hasLegacy = FALSE
    /\ assetCall = [r \in Requesters |-> IdleAsset]
    /\ lastAnswer = Answer("none")
    /\ fetchReq = IdleFetch

CallInitial ==
    /\ nativeBridge = FALSE
    /\ winPytron = Facade
    /\ globals = {}
    /\ pywebviewApi = [present |-> FALSE, methods |-> {}]
    /\ call = IdleCall
    /\ signalSeen = FALSE

-----------------------------------------------------------------------------
(* Readiness detector: index.js 10-23 *)

\* A mutant of isBackendReady: the forwarding facade counts as a backend object.
isBackendReadyProxyCounts ==
    \/ nativeBridge
    \/ winPytron.present /\ winPytron.is_ready
    \/ ("pytron_close" \in globals \/ "pytron_drag" \in globals)

isBackendReady ==
    \/ nativeBridge
    \/ winPytron.present /\ winPytron.is_ready /\ ~winPytron.is_proxy
    \/ ("pytron_close" \in globals \/ "pytron_drag" \in globals)

\* the condition of part_000's waitForBackend: window.pywebview && window.pywebview.api
LegacyReady == pywebviewApi.present

Ready == IF variant = "stable" THEN isBackendReady ELSE LegacyReady

-----------------------------------------------------------------------------
(* Invocation router of the stable client: index.js 288-315 *)

TransportsPresent(name) ==
    (IF nativeBridge THEN {"native"} ELSE {})
        \cup (IF Namespaced(name) \in globals THEN {"namespaced"} ELSE {})
        \cup (IF name \in globals THEN {"direct"} ELSE {})

SelectTransportNamespacedFirst(name) ==
    IF Namespaced(name) \in globals THEN "namespaced"
    ELSE IF nativeBridge THEN "native"
    ELSE IF name \in globals THEN "direct"
    ELSE "none"

SelectTransport(name) ==
    IF nativeBridge THEN "native"
    ELSE IF Namespaced(name) \in globals THEN "namespaced"
    ELSE IF name \in globals THEN "direct"
    ELSE "none"

\* An invocation fn(first, list) passes the method name and the argument list as two
\* parameters; an invocation fn(...list) passes the arguments themselves (first = "").
\* nativeBridge(directName, args) / window[internalName](...args) / window[directName](...args)
Invocation(t, name, args) ==
    CASE t = "native" -> [fn |-> "__pytron_native_bridge", first |-> name, list |-> args]
      [] t = "namespaced" -> [fn |-> Namespaced(name), first |-> "", list |-> args]
      [] t = "direct" -> [fn |-> name, first |-> "", list |-> args]

\* The part of the wrapper after the readiness step, up to the first await of a
\* transport's promise (or the throw of "not found").
DispatchCall(c) ==
    LET t == SelectTransport(c.name) IN
    IF t = "none"
    THEN [c EXCEPT !.pc = "done", !.avail = TransportsPresent(c.name),
                   !.log = "warn",
                   !.outcome = Rejected(MethodNotFound(c.name))]
    ELSE [c EXCEPT !.pc = "awaiting", !.avail = TransportsPresent(c.name),
                   !.invoked = Append(@, Invocation(t, c.name, c.args))]

-----------------------------------------------------------------------------
(* Wait coordinator of the stable client: index.js 26-52 *)

\* const interval = setInterval(..., 50): the wait is pending and its timer runs (32)
SetInterval(c) == [c EXCEPT !.pc = "waiting", !.timer = TRUE]

\* `if (isBackendReady()) return resolve()`: settled before any timer is made (28)
ResolveAtOnce(c) == [c EXCEPT !.via = "immediate", !.settles = @ + 1]

\* A mutant of ClearAndResolve: the interval is left running.
ClearAndResolveLeak(c, via) ==
    [c EXCEPT !.via = via, !.pc = "settled", !.settles = @ + 1]

\* clearInterval(interval); resolve() of the interval callback (37-38, 47-48)
ClearAndResolve(c, via) ==
    [c EXCEPT !.via = via, !.pc = "settled", !.timer = FALSE, !.settles = @ + 1]

\* A mutant of PollResult: the elapsed time is tested before readiness, and the
\* wait goes on while the timeout has not passed.
PollResultTimeoutOnly(c) ==
    LET e == c.elapsed + PollInterval IN
    IF e > c.timeout
    THEN ClearAndResolve([c EXCEPT !.elapsed = e],
                         IF isBackendReady THEN "poll" ELSE "timeout")
    ELSE [c EXCEPT !.elapsed = e]

\* A mutant of PollResult: the wait times out as soon as the timeout is reached.
PollResultAtTimeout(c) ==
    LET e == c.elapsed + PollInterval IN
    IF isBackendReady
    THEN ClearAndResolve([c EXCEPT !.elapsed = e], "poll")
    ELSE IF e >= c.timeout
         THEN ClearAndResolve([c EXCEPT !.elapsed = e], "timeout")
         ELSE [c EXCEPT !.elapsed = e]

\* One run of the setInterval callback (32-50): the wait record after it. The
\* timer fires PollInterval after the previous run; "settled" is a resolved wait.
PollResult(c) ==
    LET e == c.elapsed + PollInterval IN
    IF isBackendReady
    THEN ClearAndResolve([c EXCEPT !.elapsed = e], "poll")
    ELSE IF e > c.timeout
         THEN ClearAndResolve([c EXCEPT !.elapsed = e], "timeout")
         ELSE [c EXCEPT !.elapsed = e]

\* A mutant of SettleWait: the promise rejects when the wait timed out.
SettleWaitRejectOnTimeout(c) ==
    IF c.via = "timeout"
    THEN [c EXCEPT !.pc = "done", !.outcome = Rejected("Timeout waiting for condition")]
    ELSE [c EXCEPT !.pc = "done", !.outcome = Resolved(Undefined)]

\* resolve() of waitForBackend, seen by the caller of an explicit wait (28, 37, 48)
SettleWait(c) == [c EXCEPT !.pc = "done", !.outcome = Resolved(Undefined)]

\* pytron.waitForBackend(timeout), called by the page (index.js 26-31, test 65)
WaitStart(timeout) ==
    /\ variant = "stable"
    /\ call.pc \in {"idle", "done"}
    /\ LET c0 == [IdleCall EXCEPT !.kind = "wait", !.timeout = timeout] IN
       call' = IF isBackendReady
               THEN SettleWait(ResolveAtOnce(c0))
               ELSE SetInterval(c0)
    /\ signalSeen' = isBackendReady
    /\ UNCHANGED <<variant, nativeBridge, winPytron, globals, pywebviewApi>>
    /\ UNCHANGED notCallVars

\* pytron.<name>(...args): the wrapper up to its first suspension (index.js 282-315)
CallStart(name, args) ==
    /\ variant = "stable"
    /\ call.pc \in {"idle", "done"}
    /\ LET c0 == [IdleCall EXCEPT !.kind = "dynamic", !.name = name, !.args = args,
                                  !.timeout = CallTimeout] IN
       call' = IF isBackendReady
               THEN DispatchCall(ResolveAtOnce(c0))
               ELSE SetInterval(c0)
    /\ signalSeen' = isBackendReady
    /\ UNCHANGED <<variant, nativeBridge, winPytron, globals, pywebviewApi>>
    /\ UNCHANGED notCallVars

\* The interval timer of a pending wait fires; a resolved wait lets the awaiting
\* wrapper run on to dispatch in the same turn (index.js 32-50, 285-315).
PollTick ==
    /\ variant = "stable"
    /\ call.timer
    /\ LET r == PollResult(call) IN
       call' = IF r.pc # "settled" THEN r
               ELSE IF call.kind = "dynamic"
                    THEN DispatchCall(r)
                    ELSE SettleWait(r)
    /\ UNCHANGED <<variant, nativeBridge, winPytron, globals, pywebviewApi, signalSeen>>
    /\ UNCHANGED notCallVars

\* A mutant of TransportSettled: an error of the transport is swallowed.
TransportSettledSwallow(c, res) ==
    [c EXCEPT !.pc = "done", !.ret = res,
              !.outcome = IF res.kind = "rejected" THEN Resolved(Undefined) ELSE res]

\* The awaited promise of the invoked transport settles: `return await ...`
\* (296, 306, 309); only the native path catches, logs and rethrows (297-300).
TransportSettled(c, res) ==
    [c EXCEPT !.pc = "done", !.ret = res, !.outcome = res,
              !.log = IF res.kind = "rejected" /\ c.invoked[1].fn = "__pytron_native_bridge"
                      THEN "error" ELSE @]

TransportReturn(res) ==
    /\ variant = "stable"
    /\ call.pc = "awaiting"
    /\ call' = TransportSettled(call, res)
    /\ UNCHANGED <<variant, nativeBridge, winPytron, globals, pywebviewApi, signalSeen>>
    /\ UNCHANGED notCallVars

-----------------------------------------------------------------------------
(* The auto-wait client: part_000 13-28, 58-60, 76-103 *)

\* const interval = setInterval(..., 100) of waitFor (part_000 18)
LegacySetInterval(c) == [c EXCEPT !.pc = "waiting", !.timer = TRUE]

\* `if (condition()) return resolve()` of waitFor (part_000 15)
LegacyResolveAtOnce(c) == [c EXCEPT !.via = "immediate", !.settles = @ + 1]

\* clearInterval(interval) and resolve() or reject(...) of waitFor's interval
\* callback (part_000 20-21, 23-24); pc is "settled" or "failed".
LegacyClearAndSettle(c, via, pc) ==
    [c EXCEPT !.via = via, !.pc = pc, !.timer = FALSE, !.settles = @ + 1]

\* One run of waitFor's interval callback (part_000 18-26); "failed" is a rejected wait.
LegacyPollResult(c) ==
    LET e == c.elapsed + LegacyPollInterval IN
    IF LegacyReady
    THEN LegacyClearAndSettle([c EXCEPT !.elapsed = e], "poll", "settled")
    ELSE IF e > c.timeout
         THEN LegacyClearAndSettle([c EXCEPT !.elapsed = e], "timeout", "failed")
         ELSE [c EXCEPT !.elapsed = e]

\* part_000 92-97: the method check and the invocation of window.pywebview.api[prop]
LegacyDispatch(c) ==
    IF c.name \notin pywebviewApi.methods
    THEN [c EXCEPT !.pc = "done", !.outcome = Rejected(LegacyMethodNotFound(c.name))]
    ELSE [c EXCEPT !.pc = "awaiting", !.avail = {"pywebview"},
                   !.invoked = Append(@, [fn |-> c.name, first |-> "", list |-> c.args])]

\* part_000 86-89: the wrapper's catch of the rejected wait
LegacyNotConnected(c) ==
    [c EXCEPT !.pc = "done", !.log = "warn", !.outcome = Rejected(NotConnected)]

\* pytron.<name>(...args) up to its first suspension (part_000 81-97)
AutoWaitCallStart(name, args) ==
    /\ variant = "autowait"
    /\ call.pc \in {"idle", "done"}
    /\ LET c0 == [IdleCall EXCEPT !.kind = "dynamic", !.name = name, !.args = args,
                                  !.timeout = LegacyCallTimeout] IN
       call' = IF LegacyReady
               THEN LegacyDispatch(LegacyResolveAtOnce(c0))
               ELSE LegacySetInterval(c0)
    /\ signalSeen' = LegacyReady
    /\ UNCHANGED <<variant, nativeBridge, winPytron, globals, pywebviewApi>>
    /\ UNCHANGED notCallVars

\* waitFor's timer fires (part_000 18-26) and the wrapper runs on (86-97)
AutoWaitPollTick ==
    /\ variant = "autowait"
    /\ call.timer
    /\ LET r == LegacyPollResult(call) IN
       call' = CASE r.pc = "settled" -> LegacyDispatch(r)
                 [] r.pc = "failed" -> LegacyNotConnected(r)
                 [] OTHER -> r
    /\ UNCHANGED <<variant, nativeBridge, winPytron, globals, pywebviewApi, signalSeen>>
    /\ UNCHANGED notCallVars

\* part_000 96-101: the awaited backend method settles; an error is logged and rethrown
AutoWaitReturn(res) ==
    /\ variant = "autowait"
    /\ call.pc = "awaiting"
    /\ call' = [call EXCEPT !.pc = "done", !.ret = res, !.outcome = res,
                            !.log = IF res.kind = "rejected" THEN "error" ELSE @]
    /\ UNCHANGED <<variant, nativeBridge, winPytron, globals, pywebviewApi, signalSeen>>
    /\ UNCHANGED notCallVars

-----------------------------------------------------------------------------
(* The environment: the backend installs or removes what the client looks for *)

NoteSignal == signalSeen' = (signalSeen \/ (call.pc = "waiting" /\ Ready'))

\* window.__pytron_native_bridge is installed or removed (read at index.js 12, 291)
SetNativeBridge ==
    /\ variant = "stable"
    /\ nativeBridge' = ~nativeBridge
    /\ UNCHANGED <<variant, winPytron, globals, pywebviewApi, call>>
    /\ UNCHANGED notCallVars
    /\ NoteSignal

\* window.pytron is replaced (read at index.js 16)
SetWinPytron(v) ==
    /\ variant = "stable"
    /\ v # winPytron
    /\ winPytron' = v
    /\ UNCHANGED <<variant, nativeBridge, globals, pywebviewApi, call>>
    /\ UNCHANGED notCallVars
    /\ NoteSignal

\* window[g] = function (test 18-20, 70; read at index.js 19-20, 305, 308)
DefineGlobal(g) ==
    /\ variant = "stable"
    /\ g \notin globals
    /\ globals' = globals \cup {g}
    /\ UNCHANGED <<variant, nativeBridge, winPytron, pywebviewApi, call>>
    /\ UNCHANGED notCallVars
    /\ NoteSignal

\* delete window[g]
DeleteGlobal(g) ==
    /\ variant = "stable"
    /\ g \in globals
    /\ globals' = globals \ {g}
    /\ UNCHANGED <<variant, nativeBridge, winPytron, pywebviewApi, call>>
    /\ UNCHANGED notCallVars
    /\ NoteSignal

NoPywebview == [present |-> FALSE, methods |-> {}]
PywebviewValues ==
    {NoPywebview} \cup {[present |-> TRUE, methods |-> m] : m \in SUBSET {"foo"}}

\* window.pywebview.api appears, changes or goes (read at part_000 59, 83, 92)
SetPywebviewApi(a) ==
    /\ variant = "autowait"
    /\ a # pywebviewApi
    /\ pywebviewApi' = a
    /\ UNCHANGED <<variant, nativeBridge, winPytron, globals, call>>
    /\ UNCHANGED notCallVars
    /\ NoteSignal

-----------------------------------------------------------------------------
(* SpecCall *)

InitCall ==
    /\ variant \in {"stable", "autowait"}
    /\ nativeBridge \in (IF variant = "stable" THEN BOOLEAN ELSE {FALSE})
    /\ winPytron \in (IF variant = "stable" THEN WinPytronValues ELSE {Absent})
    /\ globals \in (IF variant = "stable" THEN SUBSET GlobalNames ELSE {{}})
    /\ pywebviewApi \in (IF variant = "stable" THEN {NoPywebview} ELSE PywebviewValues)
    /\ call = IdleCall
    /\ signalSeen = FALSE
    /\ BusInitial
    /\ mirror = EmptyMirror
    /\ StateInitial
    /\ AssetInitial
    /\ DomInitial
    /\ SyncInitial
    /\ FacadeInitial
    /\ NoThrowers

NextCall ==
    \/ \E t \in ExplicitTimeouts : WaitStart(t)
    \/ \E n \in MethodNames, a \in ArgLists : CallStart(n, a)
    \/ PollTick
    \/ \E res \in TransportResults : TransportReturn(res)
    \/ \E n \in MethodNames, a \in ArgLists : AutoWaitCallStart(n, a)
    \/ AutoWaitPollTick
    \/ \E res \in TransportResults : AutoWaitReturn(res)
    \/ SetNativeBridge
    \/ \E v \in WinPytronValues : SetWinPytron(v)
    \/ \E g \in GlobalNames : DefineGlobal(g)
    \/ \E g \in GlobalNames : DeleteGlobal(g)
    \/ \E a \in PywebviewValues : SetPywebviewApi(a)

SpecCall == InitCall /\ [][NextCall]_vars

\* The timers of the event loop fire, and a transport that was invoked answers.
FairSpecCall ==
    /\ InitCall /\ [][NextCall]_vars
    /\ WF_vars(PollTick)
    /\ WF_vars(AutoWaitPollTick)

-----------------------------------------------------------------------------
(* Claims about the dynamic call and the readiness wait *)

StableDynamic == variant = "stable" /\ call.kind = "dynamic"
StableWait == variant = "stable" /\ call.kind = "wait"
Dispatched == call.pc \in {"awaiting", "done"}

\* C1: a dynamic call of the stable client invokes exactly one transport, the one
\* of highest priority among those present when it dispatches (native bridge, then
\* window.pytron_<name>, then window.<name>), once, with the caller's arguments
\* (the bridge gets the name and the argument list), and settles as that
\* transport's promise settles.
C1_DispatchPriority ==
    (StableDynamic /\ Dispatched /\ call.avail # {}) =>
        /\ Len(call.invoked) = 1
        /\ "native" \in call.avail =>
              call.invoked[1] = [fn |-> "__pytron_native_bridge", first |-> call.name,
                                 list |-> call.args]
        /\ ("native" \notin call.avail /\ "namespaced" \in call.avail) =>
              call.invoked[1] = [fn |-> "pytron_" \o call.name, first |-> "",
                                 list |-> call.args]
        /\ call.avail = {"direct"} =>
              call.invoked[1] = [fn |-> call.name, first |-> "", list |-> call.args]
        /\ call.pc = "done" => (call.ret \in TransportResults /\ call.outcome = call.ret)

\* a call that waited, found the bridge and both globals, and resolved to the bridge's result
C1_Witness ==
    /\ StableDynamic /\ call.pc = "done" /\ call.via = "poll"
    /\ call.avail = {"native", "namespaced", "direct"}
    /\ call.outcome = Resolved("r")

\* The wait of the call ran to its timeout with no readiness signal at any moment of it.
TimedOutUnsignalled ==
    call.kind = "dynamic" /\ Dispatched /\ call.via = "timeout" /\ ~signalSeen

\* C2 as stated: a dynamic call made with no readiness signal present, none appearing
\* during the 2000 ms auto-wait, rejects with "Pytron backend not connected".
C2_RejectsNotConnected ==
    (TimedOutUnsignalled /\ call.pc = "done") => call.outcome = Rejected(NotConnected)

\* C2 amended: the timer firing, the wait of such a call always ends, and the call
\* is settled only after the wait has elapsed; the auto-wait
\* client (part_000) rejects it with "Pytron backend not connected" and invokes
\* nothing; the stable client dispatches it: with no global function for the name it
\* rejects with "Method '<name>' not found.", else it invokes that function once, and
\* it never rejects with "Pytron backend not connected".
C2_TimeoutOutcomeNow ==
    TimedOutUnsignalled =>
        /\ call.elapsed > call.timeout
        /\ variant = "autowait" =>
              /\ call.pc = "done"
              /\ call.outcome = Rejected(NotConnected)
              /\ call.invoked = <<>>
        /\ variant = "stable" =>
              /\ call.outcome # Rejected(NotConnected)
              /\ "native" \notin call.avail
              /\ call.avail = {} =>
                    /\ call.pc = "done"
                    /\ call.invoked = <<>>
                    /\ call.outcome = Rejected("Method '" \o call.name \o "' not found.")
              /\ call.avail # {} => Len(call.invoked) = 1

C2_TimeoutOutcome ==
    /\ []C2_TimeoutOutcomeNow
    /\ ((call.kind = "dynamic" /\ call.pc = "waiting") ~> (call.kind = "dynamic" /\ Dispatched))

\* the stable client's call, timed out with no signal, rejected as not found
C2_Witness ==
    /\ StableDynamic /\ TimedOutUnsignalled /\ call.pc = "done"
    /\ call.timeout = CallTimeout
    /\ call.outcome = Rejected(MethodNotFound(call.name))

AnySignal ==
    \/ nativeBridge
    \/ winPytron.present /\ winPytron.is_ready /\ ~winPytron.is_proxy
    \/ "pytron_close" \in globals
    \/ "pytron_drag" \in globals

\* C3: when the timer of a pending wait of the stable client fires while any one
\* readiness signal holds, the wait resolves at that tick, one polling interval after
\* the previous check, whatever is left of the timeout; an explicit wait resolves
\* with undefined and a dynamic call goes on to transport dispatch in the same step.
C3_ResolvesAtNextPoll ==
    [][(variant = "stable" /\ call.pc = "waiting" /\ AnySignal /\ call' # call) =>
          /\ call'.via = "poll"
          /\ call'.elapsed = call.elapsed + PollInterval
          /\ call'.pc \in {"awaiting", "done"}
          /\ call.kind = "wait" => call'.outcome = Resolved(Undefined)
          /\ call.kind = "dynamic" =>
                /\ call'.avail # {} => (call'.pc = "awaiting" /\ Len(call'.invoked) = 1)
                /\ call'.avail = {} => call'.outcome = Rejected(MethodNotFound(call.name))
      ]_vars

\* a dynamic call whose wait resolved on a poll well before the timeout
C3_Witness ==
    /\ StableDynamic /\ call.via = "poll" /\ call.pc = "awaiting"
    /\ call.elapsed = 2 * PollInterval /\ call.elapsed < call.timeout

\* C4: the promise of the stable client's waitForBackend(timeout) never rejects,
\* settles only by resolving with undefined, and, the timer firing, a pending wait
\* always settles.
C4_WaitAlwaysResolves ==
    /\ [](StableWait =>
            /\ call.outcome.kind # "rejected"
            /\ call.pc = "done" => call.outcome = Resolved(Undefined))
    /\ ((StableWait /\ call.pc = "waiting") ~> (StableWait /\ call.pc = "done"))

\* a wait that ran the default timeout out and resolved
C4_Witness ==
    /\ StableWait /\ call.pc = "done" /\ call.via = "timeout"
    /\ call.timeout = DefaultTimeout /\ call.outcome = Resolved(Undefined)

TransportFailed == StableDynamic /\ call.pc = "done" /\ call.ret.kind = "rejected"

\* C13: when the invoked transport fails with E, the call rejects with exactly E,
\* the error has been logged, and nothing else was invoked.
C13_LoggedAndRethrown ==
    TransportFailed =>
        /\ call.outcome = call.ret
        /\ Len(call.invoked) = 1
        /\ call.log = "error"

\* A wait or a dynamic call of the stable client starts in this step.
StableStart == variant = "stable" /\ call.pc \in {"idle", "done"} /\ call' # call

\* C17: the readiness check made when a wait or a call starts finds the backend
\* ready exactly when window.__pytron_native_bridge is a function, or window.pytron
\* exists with a truthy is_ready and a falsy __is_proxy, or window.pytron_close or
\* window.pytron_drag is a function; it leaves the window as it was.
C17_ReadyIffSignal ==
    [][StableStart =>
          /\ (call'.via = "immediate") <=>
                \/ nativeBridge
                \/ winPytron \in {[present |-> TRUE, is_ready |-> TRUE, is_proxy |-> FALSE]}
                \/ globals \cap {"pytron_close", "pytron_drag"} # {}
          /\ call'.via # "immediate" => call'.pc = "waiting"
          /\ <<nativeBridge, winPytron, globals, pywebviewApi>>' =
                <<nativeBridge, winPytron, globals, pywebviewApi>>
      ]_vars

\* a wait that started with the client's own facade as window.pytron, window.foo
\* defined, and no signal: the check said not ready
C17_Witness ==
    /\ StableWait /\ call.pc = "waiting" /\ call.elapsed = 0
    /\ winPytron = [present |-> TRUE, is_ready |-> TRUE, is_proxy |-> TRUE]
    /\ ~nativeBridge
    /\ globals = {"foo"}

\* The promise of the readiness wait of the current call has settled.
WaitSettled == call.pc \notin {"idle", "waiting"}

\* C19: in both clients, whenever the promise of a readiness wait has settled (at
\* the first check, at a later poll, or by timeout) the interval of that wait is
\* not active and the promise was settled exactly once; a timer runs only while
\* the wait is pending, and a wait never settles twice.
C19_NoTimerLeak ==
    /\ WaitSettled => (~call.timer /\ call.settles = 1)
    /\ call.timer => (call.pc = "waiting" /\ call.settles = 0)
    /\ call.settles <= 1

C19_Witness ==
    /\ call.pc = "done" /\ call.via = "timeout" /\ call.elapsed > call.timeout
    /\ ~call.timer /\ call.settles = 1

\* C14: a dynamic call dispatched while a readiness signal is present and the name
\* exists under none of the three transports rejects with "Method '<name>' not
\* found." and invokes nothing.
C14_MethodNotFound ==
    (StableDynamic /\ call.pc = "done" /\ call.via \in {"immediate", "poll"}
        /\ call.avail = {}) =>
        /\ call.outcome = [kind |-> "rejected",
                           value |-> "Method '" \o call.name \o "' not found."]
        /\ call.invoked = <<>>

\* pytron.foo() while window.pytron_drag is the only signal
C14_Witness ==
    /\ StableDynamic /\ call.pc = "done" /\ call.via = "immediate"
    /\ call.name = "foo" /\ call.avail = {}
    /\ "pytron_drag" \in globals /\ ~nativeBridge
    /\ call.outcome = Rejected("Method 'foo' not found.")
    /\ call.invoked = <<>>

-----------------------------------------------------------------------------
(* Public event bus of the stable client: index.js 55, 88-100 *)

\* A mutant of Unwrap: the callback is handed the event, not its detail.
UnwrapNever(ev) == EventObj(ev.type)

\* e.detail !== undefined ? e.detail : e   (index.js 89)
Unwrap(ev) == IF ev.detail # NoDetail THEN ev.detail ELSE EventObj(ev.type)

\* window.addEventListener(type, wrapper): a (type, listener) pair is kept once
AddEventListener(ls, type, w, cb) ==
    IF \E i \in 1..Len(ls) : ls[i].type = type /\ ls[i].w = w
    THEN ls
    ELSE Append(ls, [type |-> type, w |-> w, cb |-> cb])

\* A mutant of RemoveEventListener: nothing is removed.
RemoveEventListenerNoop(ls, type, w) == ls

\* window.removeEventListener(type, wrapper)
RemoveEventListener(ls, type, w) ==
    SelectSeq(ls, LAMBDA x : ~(x.type = type /\ x.w = w))

\* pytron.on(event, callback): index.js 88-92
On(event, cb) ==
    /\ variant = "stable"
    /\ Len(hist) < MaxBusOps
    /\ LET w == nextWrapper + 1 IN
       /\ nextWrapper' = w
       /\ eventWrappers' = IF eventWrappers[cb] = 0
                           THEN [eventWrappers EXCEPT ![cb] = w]
                           ELSE eventWrappers
       /\ winListeners' = AddEventListener(winListeners, event, w, cb)
    /\ hist' = Append(hist, [op |-> "on", ev |-> event, cb |-> cb])
    /\ delivered' = <<>>
    /\ lastDispatch' = NoEvent
    /\ UNCHANGED <<variant, listeners, mirror>>
    /\ UNCHANGED notBusVars

\* pytron.off(event, callback): index.js 94-100
Off(event, cb) ==
    /\ variant = "stable"
    /\ Len(hist) < MaxBusOps
    /\ LET w == eventWrappers[cb] IN
       IF w # 0
       THEN /\ winListeners' = RemoveEventListener(winListeners, event, w)
            /\ eventWrappers' = [eventWrappers EXCEPT ![cb] = 0]
       ELSE UNCHANGED <<winListeners, eventWrappers>>
    /\ hist' = Append(hist, [op |-> "off", ev |-> event, cb |-> cb])
    /\ delivered' = <<>>
    /\ lastDispatch' = NoEvent
    /\ UNCHANGED <<variant, nextWrapper, listeners, mirror>>
    /\ UNCHANGED notBusVars

\* The wrappers window runs for an event, in the order they were added, each
\* calling its callback with the unwrapped event (index.js 89).
WindowDelivery(ev) ==
    LET hit == SelectSeq(winListeners, LAMBDA x : x.type = ev.type) IN
    [i \in 1..Len(hit) |-> [cb |-> hit[i].cb, arg |-> Unwrap(ev)]]

\* window.dispatchEvent(ev), by the backend or the page (test 48-49, 55)
DispatchEvent(ev) ==
    /\ variant = "stable"
    /\ delivered' = WindowDelivery(ev)
    /\ lastDispatch' = ev
    /\ UNCHANGED <<variant, winListeners, eventWrappers, nextWrapper, listeners, hist, mirror>>
    /\ UNCHANGED notBusVars

-----------------------------------------------------------------------------
(* Event bus of the earlier clients: part_000 7, 39-52, 108-122 *)

\* pytron.on(event, callback): part_000 39-42, part_001 16-19
LegacyOn(event, cb) ==
    /\ variant \in {"autowait", "early"}
    /\ Len(hist) < MaxBusOps
    /\ listeners' = [listeners EXCEPT ![event] = Append(@, cb)]
    /\ hist' = Append(hist, [op |-> "on", ev |-> event, cb |-> cb])
    /\ delivered' = <<>>
    /\ lastDispatch' = NoEvent
    /\ UNCHANGED <<variant, winListeners, eventWrappers, nextWrapper, mirror>>
    /\ UNCHANGED notBusVars

\* A mutant of LegacyFilter: the first registration only is removed.
LegacyFilterFirst(cbs, cb) ==
    IF \E i \in 1..Len(cbs) : cbs[i] = cb
    THEN LET i == CHOOSE j \in 1..Len(cbs) :
                      cbs[j] = cb /\ \A h \in 1..(j - 1) : cbs[h] # cb
         IN SubSeq(cbs, 1, i - 1) \o SubSeq(cbs, i + 1, Len(cbs))
    ELSE cbs

\* listeners[event].filter(cb => cb !== callback): part_000 51
LegacyFilter(cbs, cb) == SelectSeq(cbs, LAMBDA x : x # cb)

\* pytron.off(event, callback): part_000 49-52, part_001 26-29
LegacyOff(event, cb) ==
    /\ variant \in {"autowait", "early"}
    /\ Len(hist) < MaxBusOps
    /\ listeners' = [listeners EXCEPT ![event] = LegacyFilter(@, cb)]
    /\ hist' = Append(hist, [op |-> "off", ev |-> event, cb |-> cb])
    /\ delivered' = <<>>
    /\ lastDispatch' = NoEvent
    /\ UNCHANGED <<variant, winListeners, eventWrappers, nextWrapper, mirror>>
    /\ UNCHANGED notBusVars

\* cbs.forEach(cb => cb(arg)): the invocations made; a callback that throws ends
\* the forEach (part_000 115, 120; part_001 63)
Calls(cbs, arg) ==
    LET stop == {i \in 1..Len(cbs) : cbs[i] \in throwers}
        n == IF stop = {} THEN Len(cbs) ELSE CHOOSE i \in stop : \A j \in stop : i <= j
    IN [i \in 1..n |-> [cb |-> cbs[i], arg |-> arg]]

\* Whether cbs.forEach(cb => cb(arg)) throws.
Throws(cbs) == \E i \in 1..Len(cbs) : cbs[i] \in throwers

\* The body of window.__pytron_dispatch(event, data): part_000 108-122
LegacyDispatchBody(event, data) ==
    /\ variant = "autowait"
    /\ IF event = "pytron:state-update"
       THEN /\ mirror' = [mirror EXCEPT ![data.key] = data.val]
            /\ delivered' = Calls(listeners[StateEvent(data.key)], Val(data.val))
                                \o (IF Throws(listeners[StateEvent(data.key)])
                                    THEN <<>> ELSE Calls(listeners[event], data))
       ELSE /\ mirror' = mirror
            /\ delivered' = Calls(listeners[event], data)
    /\ lastDispatch' = [type |-> event, detail |-> data]
    /\ UNCHANGED <<variant, winListeners, eventWrappers, nextWrapper, listeners, hist>>
    /\ UNCHANGED callVars

\* window.__pytron_dispatch(event, data), called by the backend
LegacyDispatchEvent(event, data) ==
    /\ LegacyDispatchBody(event, data)
    /\ UNCHANGED <<stateVars, assetVars, domVars, syncVars, facadeVars, throwers>>

-----------------------------------------------------------------------------
(* SpecBus *)

InitBus ==
    /\ variant \in {"stable", "autowait"}
    /\ CallInitial
    /\ BusInitial
    /\ mirror = EmptyMirror
    /\ StateInitial
    /\ AssetInitial
    /\ DomInitial
    /\ SyncInitial
    /\ FacadeInitial
    /\ NoThrowers

NextBus ==
    \/ \E e \in EventNames, cb \in Callbacks : On(e, cb)
    \/ \E e \in EventNames, cb \in Callbacks : Off(e, cb)
    \/ \E e \in EventNames, d \in BusPayloads :
          DispatchEvent(CustomEvent(e, d)) \/ DispatchEvent(PlainEvent(e))
    \/ \E e \in EventNames, cb \in Callbacks : LegacyOn(e, cb)
    \/ \E e \in EventNames, cb \in Callbacks : LegacyOff(e, cb)
    \/ \E e \in EventNames, d \in BusPayloads : LegacyDispatchEvent(e, d)

SpecBus == InitBus /\ [][NextBus]_vars

-----------------------------------------------------------------------------
(* Claims about the event bus *)

\* the on/off calls made for one callback, and the invocations it got
OpsOf(cb) == SelectSeq(hist, LAMBDA h : h.cb = cb)
DeliveredTo(cb) == SelectSeq(delivered, LAMBDA x : x.cb = cb)

\* every call made for cb names event e, and they alternate on, off, on, ...
Alternates(cb, e) ==
    LET ops == OpsOf(cb) IN
    \A i \in 1..Len(ops) :
        ops[i].ev = e /\ ops[i].op = (IF i % 2 = 1 THEN "on" ELSE "off")

\* C5: for a callback subscribed to one event e only, each on(e, cb) followed by its
\* off(e, cb) before the next: a dispatch of e with payload d made after on(e, cb)
\* invokes cb exactly once, with d itself (the detail unwrapped), and a dispatch
\* made after off(e, cb) does not invoke cb.
C5_OnDeliversOffStops ==
    \A cb \in Callbacks, e \in EventNames, d \in BusPayloads :
        (lastDispatch = [type |-> e, detail |-> d] /\ Alternates(cb, e)
            /\ OpsOf(cb) # <<>>) =>
            IF Len(OpsOf(cb)) % 2 = 1
            THEN DeliveredTo(cb) = <<[cb |-> cb, arg |-> d]>>
            ELSE DeliveredTo(cb) = <<>>

\* the on/off calls made for callback cb under event name e
OpsFor(cb, e) == SelectSeq(hist, LAMBDA h : h.cb = cb /\ h.ev = e)

\* C24: on the bus of the stable client, for any sequence of on/off calls, a
\* dispatch of e does not invoke cb when the latest call made for (e, cb) is
\* off(e, cb), and invokes cb when the latest call made for (e, cb) is on(e, cb),
\* whatever was called for cb under other event names.
C24_OffMatchesSubscription ==
    variant = "stable" =>
        \A cb \in Callbacks, e \in EventNames :
            (OpsFor(cb, e) # <<>> /\ lastDispatch # NoEvent /\ lastDispatch.type = e) =>
                IF OpsFor(cb, e)[Len(OpsFor(cb, e))].op = "off"
                THEN DeliveredTo(cb) = <<>>
                ELSE DeliveredTo(cb) # <<>>

\* after on(e1, cb1), on(e1, cb2), off(e1, cb2) a dispatch of e1 reaches cb1 alone
C5_Witness ==
    /\ variant = "stable"
    /\ OpsOf("cb1") = <<[op |-> "on", ev |-> "e1", cb |-> "cb1"]>>
    /\ OpsOf("cb2") = <<[op |-> "on", ev |-> "e1", cb |-> "cb2"],
                        [op |-> "off", ev |-> "e1", cb |-> "cb2"]>>
    /\ lastDispatch = CustomEvent("e1", Val(Str("d")))
    /\ delivered = <<[cb |-> "cb1", arg |-> Val(Str("d"))]>>

-----------------------------------------------------------------------------
(* Plugin loader of the stable client: index.js 391-417 *)

\* A mutant of InjectPlugin: a plugin whose name is in the loaded-set is skipped.
InjectPluginOnce(plugin, st) ==
    IF plugin.name \in st.loaded
    THEN st
    ELSE [loaded |-> st.loaded \cup {plugin.name},
          scripts |-> Append(st.scripts, [name |-> plugin.name, src |-> plugin.ui_entry,
                                          slot |-> plugin.slot, loaded |-> FALSE])]

\* injectPlugin(plugin) up to document.head.appendChild(script) (391-399, 411);
\* st holds the loaded-set and the scripts of document.head
InjectPlugin(plugin, st) ==
    [loaded |-> st.loaded \cup {plugin.name},
     scripts |-> Append(st.scripts, [name |-> plugin.name, src |-> plugin.ui_entry,
                                     slot |-> plugin.slot, loaded |-> FALSE])]

\* payload.value.forEach(plugin => { if (plugin.ui_entry && !loaded?.has(plugin.name))
\*     injectPlugin(plugin) })   (381-385)
RECURSIVE RegisterPlugins(_, _)
RegisterPlugins(list, st) ==
    IF list = <<>> THEN st
    ELSE LET plugin == Head(list) IN
         RegisterPlugins(Tail(list),
                         IF plugin.ui_entry # "" /\ plugin.name \notin st.loaded
                         THEN InjectPlugin(plugin, st)
                         ELSE st)

\* the 'pytron:plugin-loaded' listener (415-417)
PluginLoadedEvent(plugin) ==
    /\ variant = "stable"
    /\ Len(scripts) < MaxScripts
    /\ LET st == InjectPlugin(plugin, [loaded |-> loadedPlugins, scripts |-> scripts]) IN
       /\ loadedPlugins' = st.loaded
       /\ scripts' = st.scripts
    /\ lastOp' = "plugin-loaded"
    /\ UNCHANGED <<variant, busVars, mirror, received, pushes, widgets>>
    /\ UNCHANGED notStateVars

\* script.onload (400-410): one widget into every container of the plugin's slot
ScriptOnload(i) ==
    /\ variant = "stable"
    /\ ~scripts[i].loaded
    /\ scripts' = [scripts EXCEPT ![i].loaded = TRUE]
    /\ widgets' = [c \in Containers |->
                      IF scripts[i].slot # "" /\ SlotOf(c) = scripts[i].slot
                      THEN Append(widgets[c], scripts[i].name \o "-widget")
                      ELSE widgets[c]]
    /\ lastOp' = "onload"
    /\ UNCHANGED <<variant, busVars, mirror, received, pushes, loadedPlugins>>
    /\ UNCHANGED notStateVars

-----------------------------------------------------------------------------
(* State synchronizer of the stable client, pushed updates: index.js 366-388 *)

\* payload && typeof payload === 'object' && 'key' in payload   (368)
IsUpdate(payload) == payload.tag = "update"

\* A mutant of UpdateEvents: an update that leaves the value as it was emits nothing.
UpdateEventsCoalesced(m, payload) ==
    IF m[payload.key] = payload.val
    THEN <<>>
    ELSE <<CustomEvent(StateEvent(payload.key), Val(payload.val)),
           CustomEvent("pytron:state", Snap([m EXCEPT ![payload.key] = payload.val]))>>

\* A mutant of UpdateEvents: the generic event is dispatched before the keyed one.
UpdateEventsGenericFirst(m, payload) ==
    <<CustomEvent("pytron:state", Snap([m EXCEPT ![payload.key] = payload.val])),
      CustomEvent(StateEvent(payload.key), Val(payload.val))>>

\* The events the listener dispatches for an update, in order (372-377); m is the
\* mirror before the write of line 369.
UpdateEvents(m, payload) ==
    <<CustomEvent(StateEvent(payload.key), Val(payload.val)),
      CustomEvent("pytron:state", Snap([m EXCEPT ![payload.key] = payload.val]))>>

\* What the listeners of window get of a sequence of events.
RECURSIVE DeliverAll(_)
DeliverAll(evs) ==
    IF evs = <<>> THEN <<>> ELSE WindowDelivery(Head(evs)) \o DeliverAll(Tail(evs))

\* The callback invocations ds, each with the mirror its callback finds in
\* pytron.state while it runs: dispatchEvent calls the listeners synchronously.
SeenAt(ds, m) == [i \in 1..Len(ds) |-> [cb |-> ds[i].cb, arg |-> ds[i].arg, seen |-> m]]

\* window.dispatchEvent(new CustomEvent('pytron:state-update', {detail})), by the
\* backend: the whole listener (366-388)
StateUpdate(payload) ==
    /\ variant = "stable"
    /\ Len(pushes) < MaxPushes
    /\ pushes' = Append(pushes, payload)
    /\ IF IsUpdate(payload)
       THEN /\ mirror' = [mirror EXCEPT ![payload.key] = payload.val]
            /\ received' = received \o SeenAt(DeliverAll(UpdateEvents(mirror, payload)),
                                               mirror')
            /\ LET st == IF payload.key = "plugins" /\ payload.val.t = "list"
                         THEN RegisterPlugins(payload.val.l,
                                  [loaded |-> loadedPlugins, scripts |-> scripts])
                         ELSE [loaded |-> loadedPlugins, scripts |-> scripts] IN
               /\ loadedPlugins' = st.loaded
               /\ scripts' = st.scripts
            /\ lastOp' = "update"
       ELSE /\ UNCHANGED <<mirror, received, loadedPlugins, scripts>>
            /\ lastOp' = "ignored"
    /\ UNCHANGED <<variant, busVars, widgets>>
    /\ UNCHANGED notStateVars

\* window.__pytron_dispatch('pytron:state-update', data), by the backend (part_000 108-122)
LegacyStateUpdate(data) ==
    /\ Len(pushes) < MaxPushes
    /\ LegacyDispatchBody("pytron:state-update", data)
    /\ pushes' = Append(pushes, data)
    /\ received' = received \o SeenAt(delivered', mirror')
    /\ lastOp' = "update"
    /\ UNCHANGED <<loadedPlugins, scripts, widgets, assetVars, domVars, syncVars, facadeVars,
                   throwers>>

-----------------------------------------------------------------------------
(* SpecState *)

UpdateValues == {Str("1"), Str("2")}
UpdatePayloads ==
    {Upd("k", v) : v \in UpdateValues} \cup {Upd("plugins", List(l)) : l \in PluginLists}
\* a detail that is no update object: the JSON text of one
TextPayload == Val(Str("{\"key\":\"k\",\"value\":\"1\"}"))

\* The page has subscribed cb1 to 'state:k' and cb2 to 'pytron:state' (pytron.on).
InitState ==
    /\ variant \in {"stable", "autowait"}
    /\ CallInitial
    /\ StateInitial
    /\ AssetInitial
    /\ DomInitial
    /\ SyncInitial
    /\ FacadeInitial
    /\ NoThrowers
    /\ mirror = EmptyMirror
    /\ delivered = <<>>
    /\ lastDispatch = NoEvent
    /\ hist = <<[op |-> "on", ev |-> "state:k", cb |-> "cb1"],
                [op |-> "on", ev |-> "pytron:state", cb |-> "cb2"]>>
    /\ IF variant = "stable"
       THEN /\ winListeners = <<[type |-> "state:k", w |-> 1, cb |-> "cb1"],
                                [type |-> "pytron:state", w |-> 2, cb |-> "cb2"]>>
            /\ eventWrappers = [cb \in Callbacks |-> IF cb = "cb1" THEN 1 ELSE 2]
            /\ nextWrapper = 2
            /\ listeners = NoListeners
       ELSE /\ winListeners = <<>>
            /\ eventWrappers = [cb \in Callbacks |-> 0]
            /\ nextWrapper = 0
            /\ listeners = [NoListeners EXCEPT !["state:k"] = <<"cb1">>,
                                               !["pytron:state"] = <<"cb2">>]

NextState ==
    \/ \E payload \in UpdatePayloads \cup {TextPayload} : StateUpdate(payload)
    \/ \E plugin \in PluginDescriptors : PluginLoadedEvent(plugin)
    \/ \E i \in 1..Len(scripts) : ScriptOnload(i)
    \/ \E data \in UpdatePayloads : LegacyStateUpdate(data)

SpecState == InitState /\ [][NextState]_vars

-----------------------------------------------------------------------------
(* Claims about pushed state updates and plugin loading *)

\* the values of the updates pushed for key k, in the order pushed
RECURSIVE PushedValues(_, _)
PushedValues(ps, k) ==
    IF ps = <<>> THEN <<>>
    ELSE (IF Head(ps).tag = "update" /\ Head(ps).key = k
          THEN <<Head(ps).val>> ELSE <<>>) \o PushedValues(Tail(ps), k)

\* the values handed to a callback, in the order handed
ReceivedBy(cb) ==
    LET got == SelectSeq(received, LAMBDA x : x.cb = cb) IN
    [i \in 1..Len(got) |-> got[i].arg]

\* C6: the subscriber of state:k has received one emission per update pushed for k,
\* carrying the pushed values in the order pushed, and right after an update of k
\* the mirror's k is the value of the latest one.
C6_UpdatesInOrder ==
    LET vs == PushedValues(pushes, "k") IN
    /\ ReceivedBy("cb1") = [i \in 1..Len(vs) |-> Val(vs[i])]
    /\ (lastOp = "update" /\ pushes[Len(pushes)].key = "k") =>
           mirror["k"] = vs[Len(vs)]

\* k pushed as 1 then 2: two emissions, 1 then 2, and the mirror at 2
C6_Witness ==
    /\ variant = "stable"
    /\ pushes = <<Upd("k", Str("1")), Upd("k", Str("2"))>>
    /\ ReceivedBy("cb1") = <<Val(Str("1")), Val(Str("2"))>>
    /\ mirror["k"] = Str("2")

\* C20: in the stable client the handling of one pushed update {key, value} writes
\* the mirror, then hands the new value alone to the subscriber of 'state:<key>',
\* then hands a copy of the whole mirror, the new value in it, to the subscriber of
\* 'pytron:state', both callbacks finding the written mirror in pytron.state; a
\* payload that is no object with a key changes nothing and emits nothing.
C20_UpdateSequence ==
    [][(variant = "stable" /\ pushes' # pushes) =>
        LET p == pushes'[Len(pushes')]
            m == [mirror EXCEPT ![p.key] = p.val]
            keyed == IF p.key = "k"
                     THEN <<[cb |-> "cb1", arg |-> Val(p.val), seen |-> m]>> ELSE <<>>
            generic == <<[cb |-> "cb2", arg |-> Snap(m), seen |-> m]>>
        IN IF p.tag = "update"
           THEN /\ mirror' = m
                /\ m[p.key] = p.val
                /\ received' = received \o keyed \o generic
           ELSE UNCHANGED <<mirror, received, loadedPlugins, scripts, widgets>>]_vars

C20_Witness ==
    LET m == [EmptyMirror EXCEPT !["k"] = Str("2")] IN
    /\ variant = "stable" /\ lastOp = "update"
    /\ pushes = <<TextPayload, Upd("k", Str("2"))>>
    /\ mirror = m
    /\ received = <<[cb |-> "cb1", arg |-> Val(Str("2")), seen |-> m],
                    [cb |-> "cb2", arg |-> Snap(m), seen |-> m]>>

\* What the JSON text of TextPayload decodes to.
DecodedTextPayload == Upd("k", Str("1"))

\* C18: right after a 'pytron:state-update' whose detail is the JSON text of
\* {key: "k", value: "1"}, the update has been applied as decoded: the mirror's k
\* is "1" and the subscriber of state:k has last received "1".
C18_TextPayloadDecoded ==
    (variant = "stable" /\ lastOp \in {"update", "ignored"}
        /\ pushes # <<>> /\ pushes[Len(pushes)] = TextPayload) =>
        /\ mirror[DecodedTextPayload.key] = DecodedTextPayload.val
        /\ ReceivedBy("cb1") # <<>>
        /\ ReceivedBy("cb1")[Len(ReceivedBy("cb1"))] = Val(DecodedTextPayload.val)

ScriptsOf(name) == {i \in 1..Len(scripts) : scripts[i].name = name}
WidgetsOf(name, c) == {i \in 1..Len(widgets[c]) : widgets[c][i] = name \o "-widget"}

\* C8: at most one script element is injected per plugin name, and at most one
\* widget of a plugin is mounted in a slot container.
C8_PluginIdempotent ==
    \A plugin \in PluginDescriptors :
        /\ Cardinality(ScriptsOf(plugin.name)) <= 1
        /\ \A c \in Containers : Cardinality(WidgetsOf(plugin.name, c)) <= 1

-----------------------------------------------------------------------------
(* Asset resolver of the stable client: index.js 122-150 *)

\* bytes[i] = asset.raw.charCodeAt(i), stored in a Uint8Array (128-131)
BytesOf(raw) == [i \in 1..Len(raw) |-> raw[i] % 256]

\* The legacy branch (140-149): the call of window.pytron_get_asset, or null.
AssetLegacyStep(r) ==
    IF hasLegacy
    THEN [r EXCEPT !.pc = "legacy",
                   !.calls = Append(@, [fn |-> "pytron_get_asset", key |-> r.key])]
    ELSE [r EXCEPT !.pc = "done", !.result = NullResult]

\* pytronApi.asset(key) up to its first suspension (122-126, 140-142, 149)
AssetBegin(key) ==
    IF hasVap
    THEN [IdleAsset EXCEPT !.pc = "vap", !.key = key,
                           !.calls = <<[fn |-> "__pytron_vap_get", key |-> key]>>]
    ELSE AssetLegacyStep([IdleAsset EXCEPT !.key = key])

\* A mutant of AssetAfterVap: no try/catch around the binary bridge.
AssetAfterVapUncaught(r, answer) ==
    CASE answer.t = "asset" ->
            [r EXCEPT !.pc = "done", !.result = Blob(BytesOf(answer.raw), answer.mime)]
      [] answer.t \in {"throw", "malformed"} -> [r EXCEPT !.pc = "done", !.threw = TRUE]
      [] OTHER -> AssetLegacyStep(r)

\* A mutant of AssetAfterVap: a failure of the binary bridge ends the resolution.
AssetAfterVapNoFallback(r, answer) ==
    CASE answer.t = "asset" ->
            [r EXCEPT !.pc = "done", !.result = Blob(BytesOf(answer.raw), answer.mime)]
      [] answer.t \in {"throw", "malformed"} ->
            [r EXCEPT !.pc = "done", !.logged = TRUE, !.result = NullResult]
      [] OTHER -> AssetLegacyStep(r)

\* The awaited window.__pytron_vap_get(key) settles (126-137): an asset becomes a
\* Blob; an exception, of the call or of reading asset.raw, is caught and logged;
\* then, as after a falsy answer, the legacy branch runs.
AssetAfterVap(r, answer) ==
    CASE answer.t = "asset" ->
            [r EXCEPT !.pc = "done", !.result = Blob(BytesOf(answer.raw), answer.mime)]
      [] answer.t \in {"throw", "malformed"} -> AssetLegacyStep([r EXCEPT !.logged = TRUE])
      [] OTHER -> AssetLegacyStep(r)

\* The awaited window.pytron_get_asset(key) settles (142-147)
AssetAfterLegacy(r, answer) ==
    CASE answer.t = "asset" -> [r EXCEPT !.pc = "done", !.result = DataRef(answer.data)]
      [] answer.t = "throw" -> [r EXCEPT !.pc = "done", !.logged = TRUE, !.result = NullResult]
      [] OTHER -> [r EXCEPT !.pc = "done", !.result = NullResult]

\* JavaScript truthiness of a result of asset(): a Blob, a non-empty string
Truthy(result) == result.t = "blob" \/ (result.t = "data" /\ result.data # <<>>)

-----------------------------------------------------------------------------
(* Fetch interceptor of the stable client: index.js 155-173 *)

\* url.startsWith('pytron://')
StartsWithScheme(url) == Len(url) >= 1 /\ url[1] = Scheme

\* url.replace('pytron://', ''): the first occurrence is removed
RemoveFirstScheme(url) ==
    IF \E i \in 1..Len(url) : url[i] = Scheme
    THEN LET i == CHOOSE j \in 1..Len(url) :
                      url[j] = Scheme /\ \A h \in 1..(j - 1) : url[h] # Scheme
         IN SubSeq(url, 1, i - 1) \o SubSeq(url, i + 1, Len(url))
    ELSE url

\* str.split(/[?#]/)[0]
BeforeSeparator(str) ==
    IF \E i \in 1..Len(str) : str[i] \in Separators
    THEN LET i == CHOOSE j \in 1..Len(str) :
                      str[j] \in Separators /\ \A h \in 1..(j - 1) : str[h] \notin Separators
         IN SubSeq(str, 1, i - 1)
    ELSE str

\* url.replace('pytron://', '').split(/[?#]/)[0]   (163)
FetchKey(url) == BeforeSeparator(RemoveFirstScheme(url))

\* return originalFetch(...args)   (170)
FetchOriginal(f) ==
    [f EXCEPT !.pc = "done", !.origCalls = Append(@, f.url), !.response = DataRef(f.url)]

\* The interceptor after `await pytronApi.asset(key)` (165-170)
FetchFinish(f, asset) ==
    IF Truthy(asset)
    THEN IF asset.t = "blob"
         THEN [f EXCEPT !.pc = "done", !.response = asset]
         ELSE [f EXCEPT !.pc = "done", !.origCalls = Append(@, asset.data),
                        !.response = DataRef(asset.data)]
    ELSE FetchOriginal(f)

\* What a settled asset() means to its requester: the interceptor runs on.
Continue(r, a) ==
    IF r = "fetch" /\ a.pc = "done" THEN FetchFinish(fetchReq, a.result) ELSE fetchReq

\* pytron.asset(key), called by the page
PageAsset(key) ==
    /\ assetCall["page"].pc \in {"idle", "done"}
    /\ assetCall' = [assetCall EXCEPT !["page"] = AssetBegin(key)]
    /\ lastAnswer' = Answer("none")
    /\ UNCHANGED <<hasVap, hasLegacy, fetchReq>>
    /\ UNCHANGED notAssetVars

\* window.fetch(url), called by the page: the interceptor up to its first
\* suspension (157-164, 170)
Fetch(url) ==
    /\ fetchReq.pc \in {"idle", "done"}
    /\ LET f == [IdleFetch EXCEPT !.url = url] IN
       IF StartsWithScheme(url)
       THEN LET a == AssetBegin(FetchKey(url)) IN
            /\ assetCall' = [assetCall EXCEPT !["fetch"] = a]
            /\ fetchReq' = IF a.pc = "done"
                           THEN FetchFinish(f, a.result)
                           ELSE [f EXCEPT !.pc = "resolving"]
       ELSE /\ assetCall' = [assetCall EXCEPT !["fetch"] = IdleAsset]
            /\ fetchReq' = FetchOriginal(f)
    /\ lastAnswer' = Answer("none")
    /\ UNCHANGED <<hasVap, hasLegacy>>
    /\ UNCHANGED notAssetVars

\* window.__pytron_vap_get answers the call of requester r
VapAnswer(r, answer) ==
    /\ assetCall[r].pc = "vap"
    /\ LET a == AssetAfterVap(assetCall[r], answer) IN
       /\ assetCall' = [assetCall EXCEPT ![r] = a]
       /\ fetchReq' = Continue(r, a)
    /\ lastAnswer' = answer
    /\ UNCHANGED <<hasVap, hasLegacy>>
    /\ UNCHANGED notAssetVars

\* window.pytron_get_asset answers the call of requester r
LegacyAnswer(r, answer) ==
    /\ assetCall[r].pc = "legacy"
    /\ LET a == AssetAfterLegacy(assetCall[r], answer) IN
       /\ assetCall' = [assetCall EXCEPT ![r] = a]
       /\ fetchReq' = Continue(r, a)
    /\ lastAnswer' = answer
    /\ UNCHANGED <<hasVap, hasLegacy>>
    /\ UNCHANGED notAssetVars

\* window.__pytron_vap_get is installed or removed (read at 124)
SetVap ==
    /\ hasVap' = ~hasVap
    /\ lastAnswer' = Answer("none")
    /\ UNCHANGED <<hasLegacy, assetCall, fetchReq>>
    /\ UNCHANGED notAssetVars

\* window.pytron_get_asset is installed or removed (read at 140)
SetLegacy ==
    /\ hasLegacy' = ~hasLegacy
    /\ lastAnswer' = Answer("none")
    /\ UNCHANGED <<hasVap, assetCall, fetchReq>>
    /\ UNCHANGED notAssetVars

-----------------------------------------------------------------------------
(* SpecAsset *)

InitAsset ==
    /\ variant = "stable"
    /\ CallInitial
    /\ BusInitial
    /\ StateInitial
    /\ mirror = EmptyMirror
    /\ hasVap \in BOOLEAN
    /\ hasLegacy \in BOOLEAN
    /\ assetCall = [r \in Requesters |-> IdleAsset]
    /\ lastAnswer = Answer("none")
    /\ fetchReq = IdleFetch
    /\ DomInitial
    /\ SyncInitial
    /\ FacadeInitial
    /\ NoThrowers

NextAsset ==
    \/ PageAsset(KeyIcon)
    \/ \E url \in FetchUrls : Fetch(url)
    \/ \E r \in Requesters, answer \in VapAnswers : VapAnswer(r, answer)
    \/ \E r \in Requesters, answer \in LegacyAnswers : LegacyAnswer(r, answer)
    \/ SetVap
    \/ SetLegacy

SpecAsset == InitAsset /\ [][NextAsset]_vars

-----------------------------------------------------------------------------
(* Claims about the asset resolver and the fetch interceptor *)

VapCall(key) == [fn |-> "__pytron_vap_get", key |-> key]
LegacyCall(key) == [fn |-> "pytron_get_asset", key |-> key]

\* C7: asset(key) never throws. A settled resolution that called no transport, or
\* whose last call failed or answered null, returns null; one whose legacy call
\* answered returns that answer's data. And when the binary bridge throws, the
\* resolver then calls pytron_get_asset with the same key, if that function exists,
\* and returns null if it does not.
C7_AssetFallback ==
    /\ [](\A r \in Requesters :
            LET a == assetCall[r] IN
            /\ ~a.threw
            /\ (a.pc = "done" /\ a.calls = <<>>) => a.result = NullResult
            /\ \A i \in 1..Len(a.calls) : a.calls[i].key = a.key
            /\ Len(a.calls) <= 2)
    /\ [][\A r \in Requesters :
            LET a == assetCall[r] IN
            /\ (a.pc = "vap" /\ assetCall'[r] # a
                    /\ lastAnswer' \in {Answer("throw"), Answer("malformed")}) =>
                  IF hasLegacy
                  THEN /\ assetCall'[r].pc = "legacy"
                       /\ assetCall'[r].calls = <<VapCall(a.key), LegacyCall(a.key)>>
                  ELSE /\ assetCall'[r].pc = "done"
                       /\ assetCall'[r].result = NullResult
            /\ (a.pc = "legacy" /\ assetCall'[r] # a) =>
                  /\ assetCall'[r].pc = "done"
                  /\ assetCall'[r].result =
                        IF lastAnswer'.t = "asset"
                        THEN DataRef(lastAnswer'.data)
                        ELSE NullResult
      ]_vars

\* the bridge threw, the legacy call was made and its data returned
C7_Witness ==
    /\ assetCall["page"].pc = "done"
    /\ assetCall["page"].logged
    /\ assetCall["page"].calls = <<VapCall(KeyIcon), LegacyCall(KeyIcon)>>
    /\ assetCall["page"].result = DataRef(DataUri)

\* C10: a settled fetch of a URL not of the reserved scheme called the original
\* fetch exactly once with that URL and did not call the resolver; a settled fetch
\* of a reserved-scheme URL called the resolver with the key and never passed the
\* reserved-scheme URL to the original fetch.
C10_FetchInterception ==
    fetchReq.pc = "done" =>
        IF fetchReq.url[1] # "pytron://"
        THEN /\ fetchReq.origCalls = <<fetchReq.url>>
             /\ assetCall["fetch"] = IdleAsset
        ELSE /\ assetCall["fetch"].pc = "done"
             /\ assetCall["fetch"].key = <<"icon">>
             /\ \A i \in 1..Len(fetchReq.origCalls) : fetchReq.origCalls[i][1] # "pytron://"

-----------------------------------------------------------------------------
(* DOM watcher of the stable client: index.js 177-265 *)

\* url.match(/pytron:\/\/([^?#]+)/): the first place where the scheme is followed
\* by a character other than ? and #, and the run of such characters after it;
\* <<>> stands for null.   (178-182)
getPytronKey(url) ==
    LET at == {i \in 1..(Len(url) - 1) : url[i] = Scheme /\ url[i + 1] \notin Separators} IN
    IF at = {}
    THEN <<>>
    ELSE LET i == CHOOSE j \in at : \A h \in at : j <= h
         IN BeforeSeparator(SubSeq(url, i + 1, Len(url)))

\* The DOM state a handler works on.  An element also carries racedKey: the key of
\* the URL the page last gave it, when that URL was given while a resolution of
\* another key was in flight, and <<>> otherwise; an object URL carries the element
\* and the key it was created for.
Dom == [doc |-> doc, call |-> domCall, urls |-> objectUrls, created |-> created]

\* A mutant of HandleFinish: the resolved blob is registered, the element left alone.
HandleFinishNoRewrite(D0, el, result) ==
    LET D == [D0 EXCEPT !.doc[el].inflight = @ - 1]
        e == D.doc[el] IN
    IF Truthy(result) /\ result.t = "blob"
    THEN [D EXCEPT !.urls = Append(@, [blob |-> result, revoked |-> FALSE, el |-> el,
                                     key |-> D0.call[el].key]),
                   !.doc[el].loading = FALSE]
    ELSE [D EXCEPT !.doc[el].loading = FALSE]

\* A mutant of HandleFinish: the object URL the element held is not revoked.
HandleFinishNoRevoke(D0, el, result) ==
    LET D == [D0 EXCEPT !.doc[el].inflight = @ - 1]
        e == D.doc[el]
        n == Len(D.urls) + 1
        urls1 == Append(D.urls, [blob |-> result, revoked |-> FALSE, el |-> el,
                                     key |-> D0.call[el].key])
    IN
    IF ~Truthy(result)
    THEN [D EXCEPT !.doc[el].loading = FALSE]
    ELSE IF result.t # "blob"
    THEN [D EXCEPT !.doc[el].loading = FALSE]
    ELSE IF e.tag = "SCRIPT"
    THEN IF e.present
         THEN [D EXCEPT !.urls = urls1,
                        !.created = Append(@, [tag |-> "SCRIPT", url |-> BlobUrl(n),
                                               loading |-> TRUE]),
                        !.doc[el].present = FALSE,
                        !.doc[el].loading = FALSE]
         ELSE [D EXCEPT !.urls = urls1, !.doc[el].loading = FALSE]
    ELSE [D EXCEPT !.urls = urls1,
                   !.doc[el] = [e EXCEPT !.blobUrl = n, !.url = BlobUrl(n),
                                         !.loading = FALSE]]

\* handlePytronAsset after `await pytronApi.asset(key)` (198-220).
\* URL.createObjectURL throws for a string, replaceChild for an element without
\* parent; both are caught and reported on the console, which is not modelled.  Assigning the object URL to el[attr]
\* makes the observer call the handler again, which finds no key in it.
HandleFinish(D0, el, result) ==
    LET D == [D0 EXCEPT !.doc[el].inflight = @ - 1]
        e == D.doc[el]
        n == Len(D.urls) + 1
        urls1 == Append(D.urls, [blob |-> result, revoked |-> FALSE, el |-> el,
                                     key |-> D0.call[el].key])
    IN
    IF ~Truthy(result)
    THEN [D EXCEPT !.doc[el].loading = FALSE]
    ELSE IF result.t # "blob"
    THEN [D EXCEPT !.doc[el].loading = FALSE]
    ELSE IF e.tag = "SCRIPT"
    THEN IF e.present
         THEN [D EXCEPT !.urls = urls1,
                        !.created = Append(@, [tag |-> "SCRIPT", url |-> BlobUrl(n),
                                               loading |-> TRUE]),
                        !.doc[el].present = FALSE,
                        !.doc[el].loading = FALSE]
         ELSE [D EXCEPT !.urls = urls1, !.doc[el].loading = FALSE]
    ELSE [D EXCEPT !.urls = IF e.blobUrl # 0
                            THEN [urls1 EXCEPT ![e.blobUrl].revoked = TRUE]
                            ELSE urls1,
                   !.doc[el] = [e EXCEPT !.blobUrl = n, !.url = BlobUrl(n),
                                         !.loading = FALSE]]

\* The call a handler awaited is over.
Settled(D, el) == [D EXCEPT !.call[el] = IdleAsset]

\* handlePytronAsset(el) up to its suspension (184-197); the attribute and the
\* property el[attr] hold the same URL in the model.  inflight counts the calls of
\* pytronApi.asset made for the element and not yet over.
HandleStart(D, el) ==
    LET e == D.doc[el]
        key == getPytronKey(e.url)
    IN
    IF key # <<>> /\ ~e.loading
    THEN LET a == AssetBegin(key)
             D1 == [D EXCEPT !.doc[el].loading = TRUE, !.doc[el].inflight = @ + 1,
                             !.call[el] = a]
         IN IF a.pc = "done" THEN Settled(HandleFinish(D1, el, a.result), el) ELSE D1
    ELSE D

\* document.querySelectorAll('img, script, link'), in document order
DocumentOrder == <<"el1", "el2">>
QuerySelectorAll(D) == SelectSeq(DocumentOrder, LAMBDA el : D.doc[el].present)

\* nodes.forEach(handlePytronAsset)
RECURSIVE HandleAll(_, _)
HandleAll(D, els) ==
    IF els = <<>> THEN D ELSE HandleAll(HandleStart(D, Head(els)), Tail(els))

SetDom(D) ==
    /\ doc' = D.doc
    /\ domCall' = D.call
    /\ objectUrls' = D.urls
    /\ created' = D.created

\* startObserver (241-256): observe, then the initial scan
StartObserver ==
    /\ ~observing
    /\ observing' = TRUE
    /\ SetDom(HandleAll(Dom, QuerySelectorAll(Dom)))
    /\ lastAnswer' = Answer("none")
    /\ UNCHANGED <<hasVap, hasLegacy>>
    /\ UNCHANGED notDomVars

\* The page inserts an element; the observer, once started, handles it (224-232).
AddNode(el, tag, url) ==
    /\ doc[el] = NoElement
    /\ Len(objectUrls) < MaxObjectUrls
    /\ LET D == [Dom EXCEPT !.doc[el] = Element(tag, url)] IN
       SetDom(IF observing THEN HandleStart(D, el) ELSE D)
    /\ lastAnswer' = Answer("none")
    /\ UNCHANGED <<observing, hasVap, hasLegacy>>
    /\ UNCHANGED notDomVars

\* The page gives element el a reserved-scheme URL of another key than the one
\* whose resolution for el is still in flight.
GivenInFlight(D, el, url) ==
    /\ D.call[el].pc \in {"vap", "legacy"}
    /\ getPytronKey(url) # <<>>
    /\ getPytronKey(url) # D.call[el].key

\* The page sets src (href) of an element of the document; the observer, once
\* started, handles the element (233-236).
SetAttribute(el, url) ==
    /\ doc[el].present
    /\ url # doc[el].url
    /\ Len(objectUrls) < MaxObjectUrls
    /\ LET D == [Dom EXCEPT !.doc[el].url = url,
                             !.doc[el].racedKey = IF GivenInFlight(Dom, el, url)
                                                  THEN getPytronKey(url) ELSE <<>>] IN
       SetDom(IF observing THEN HandleStart(D, el) ELSE D)
    /\ lastAnswer' = Answer("none")
    /\ UNCHANGED <<observing, hasVap, hasLegacy>>
    /\ UNCHANGED notDomVars

\* window.__pytron_vap_get answers the call made for element el
DomVapAnswer(el, answer) ==
    /\ domCall[el].pc = "vap"
    /\ LET a == AssetAfterVap(domCall[el], answer)
           D == [Dom EXCEPT !.call[el] = a]
       IN SetDom(IF a.pc = "done" THEN Settled(HandleFinish(D, el, a.result), el) ELSE D)
    /\ lastAnswer' = answer
    /\ UNCHANGED <<observing, hasVap, hasLegacy>>
    /\ UNCHANGED notDomVars

\* window.pytron_get_asset answers the call made for element el
DomLegacyAnswer(el, answer) ==
    /\ domCall[el].pc = "legacy"
    /\ LET a == AssetAfterLegacy(domCall[el], answer)
           D == [Dom EXCEPT !.call[el] = a]
       IN SetDom(IF a.pc = "done" THEN Settled(HandleFinish(D, el, a.result), el) ELSE D)
    /\ lastAnswer' = answer
    /\ UNCHANGED <<observing, hasVap, hasLegacy>>
    /\ UNCHANGED notDomVars

-----------------------------------------------------------------------------
(* SpecDom *)

InitDom ==
    /\ variant = "stable"
    /\ CallInitial
    /\ BusInitial
    /\ StateInitial
    /\ mirror = EmptyMirror
    /\ hasVap \in BOOLEAN
    /\ hasLegacy \in BOOLEAN
    /\ assetCall = [r \in Requesters |-> IdleAsset]
    /\ lastAnswer = Answer("none")
    /\ fetchReq = IdleFetch
    /\ observing = FALSE
    /\ doc \in {d \in [Elements -> InitialElements] :
                    d["el1"] # NoElement /\ d["el2"] = NoElement}
    /\ domCall = [el \in Elements |-> IdleAsset]
    /\ objectUrls = <<>>
    /\ created = <<>>
    /\ SyncInitial
    /\ FacadeInitial
    /\ NoThrowers

NextDom ==
    \/ StartObserver
    \/ \E el \in Elements, tag \in Tags, url \in DomUrls : AddNode(el, tag, url)
    \/ \E el \in Elements, url \in DomUrls : SetAttribute(el, url)
    \/ \E el \in Elements, answer \in DomVapAnswers : DomVapAnswer(el, answer)
    \/ \E el \in Elements, answer \in LegacyAnswers : DomLegacyAnswer(el, answer)
    \/ SetVap
    \/ SetLegacy

SpecDom == InitDom /\ [][NextDom]_vars

-----------------------------------------------------------------------------
(* Claims about the DOM watcher *)

ReservedImg(e) == e.present /\ e.tag = "IMG" /\ e.url[1] = "pytron://"

\* the key of a reserved-scheme URL: what follows the scheme, up to ? or #
KeyOf(url) == BeforeSeparator(Tail(url))

\* C9: when the watcher starts, every <img> of the document whose src uses the
\* reserved scheme is handed to the resolver with the key of its src; and when
\* the binary bridge answers that call with an asset while the src still names
\* that key, the same step creates a new object URL for a blob of the asset's
\* bytes and MIME type and makes it the element's src in place of the
\* reserved-scheme URL.
C9_ImgRewritten ==
    [][\A el \in Elements :
         /\ (~observing /\ observing' /\ ReservedImg(doc[el])) =>
               /\ hasVap => /\ domCall'[el].calls = <<VapCall(KeyOf(doc[el].url))>>
                            /\ doc'[el].loading
               /\ (~hasVap /\ hasLegacy) =>
                            /\ domCall'[el].calls = <<LegacyCall(KeyOf(doc[el].url))>>
                            /\ doc'[el].loading
         /\ (/\ ReservedImg(doc[el])
             /\ domCall[el].pc = "vap"
             /\ domCall'[el] # domCall[el]
             /\ domCall[el].key = KeyOf(doc[el].url)
             /\ lastAnswer'.t = "asset") =>
               LET n == Len(objectUrls') IN
               /\ n = Len(objectUrls) + 1
               /\ objectUrls'[n] =
                     [blob |-> Blob([i \in 1..Len(lastAnswer'.raw) |-> lastAnswer'.raw[i] % 256],
                                    lastAnswer'.mime),
                      revoked |-> FALSE, el |-> el, key |-> KeyOf(doc[el].url)]
               /\ doc'[el].url = BlobUrl(n)
               /\ doc'[el].url[1] # "pytron://"
               /\ ~doc'[el].loading
      ]_vars

\* an <img src="pytron://icon"> of the initial document was scanned and rewritten
\* to the object URL of a blob with bytes 0,1,2 and type image/png
C9_Witness ==
    /\ observing
    /\ \E el \in Elements :
          /\ doc[el].tag = "IMG"
          /\ doc[el].present
          /\ doc[el].blobUrl = 1
          /\ doc[el].url = BlobUrl(1)
          /\ objectUrls[1] = [blob |-> Blob(<<0, 1, 2>>, "image/png"), revoked |-> FALSE,
                               el |-> el, key |-> <<"icon">>]

-----------------------------------------------------------------------------
(* State synchronizer of the stable client, initial sync: index.js 322-364 *)

\* The state the backend starts with; every update it makes afterwards it pushes.
BackendInitial == [key \in MirrorKeys |->
                      IF key = "k" THEN Str("0") ELSE List(<<PluginP>>)]

\* The backend's own state after the updates ps.
RECURSIVE BackendAfter(_, _)
BackendAfter(m, ps) ==
    IF ps = <<>> THEN m
    ELSE BackendAfter(IF Head(ps).tag = "update"
                      THEN [m EXCEPT ![Head(ps).key] = Head(ps).val]
                      ELSE m,
                      Tail(ps))
BackendState == BackendAfter(BackendInitial, pushes)

\* Object.assign(state, initialState)   (346)
ObjectAssign(m, snap) ==
    [key \in MirrorKeys |-> IF snap[key] # JsUndefined THEN snap[key] ELSE m[key]]

\* state.plugins.forEach(plugin => { if (plugin.ui_entry) injectPlugin(plugin) })
\* (350-355)
RECURSIVE SyncPlugins(_, _)
SyncPlugins(list, st) ==
    IF list = <<>> THEN st
    ELSE SyncPlugins(Tail(list),
                     IF Head(list).ui_entry # "" THEN InjectPlugin(Head(list), st) ELSE st)

\* performSync() up to its await (326-334): the wrapper, else the native bridge,
\* else null, after which the loop sleeps (341-342)
PerformSync(s) ==
    IF hasSyncFn
    THEN [s EXCEPT !.pc = "call", !.via = "pytron_sync_state", !.reply = NoReply,
                   !.calls = @ + 1]
    ELSE IF nativeBridge
    THEN [s EXCEPT !.pc = "call", !.via = "__pytron_native_bridge", !.reply = NoReply,
                   !.calls = @ + 1]
    ELSE [s EXCEPT !.pc = "sleep", !.via = ""]

\* `await waitForBackend(3000)` resolves (323): the first attempt starts
SyncWaitDone ==
    /\ sync.pc = "wait"
    /\ sync' = PerformSync(sync)
    /\ lastOp' = "sync"
    /\ UNCHANGED <<hasSyncFn, busVars, mirror, received, pushes, loadedPlugins, scripts,
                   widgets>>
    /\ UNCHANGED notSyncVars

\* The backend answers the pending call: a snapshot of its state as it is now, a
\* falsy value or a rejection.  The answer reaches the client in a later step.
BackendReplies(t) ==
    /\ sync.pc = "call"
    /\ sync.reply = NoReply
    /\ sync' = [sync EXCEPT !.reply = CASE t = "snapshot" -> SnapshotReply(BackendState)
                                         [] t = "null" -> NullReply
                                         [] OTHER -> RejectReply]
    /\ lastOp' = "sync"
    /\ UNCHANGED <<hasSyncFn, busVars, mirror, received, pushes, loadedPlugins, scripts,
                   widgets>>
    /\ UNCHANGED notSyncVars

\* The loop after `initialState = await performSync()` (340-363)
SyncContinue ==
    /\ sync.pc = "call"
    /\ sync.reply # NoReply
    /\ CASE sync.reply.t = "snapshot" ->
              LET m == ObjectAssign(mirror, sync.reply.snap)
                  st0 == [loaded |-> loadedPlugins, scripts |-> scripts]
                  st == IF m["plugins"].t = "list"
                        THEN SyncPlugins(m["plugins"].l, st0) ELSE st0
              IN /\ mirror' = m
                 /\ loadedPlugins' = st.loaded
                 /\ scripts' = st.scripts
                 /\ received' = received \o
                        SeenAt(WindowDelivery(CustomEvent("pytron:state", Snap(m))), m)
                 /\ sync' = [sync EXCEPT !.pc = "done"]
         [] sync.reply.t = "null" ->
              /\ sync' = [sync EXCEPT !.pc = "sleep"]
              /\ UNCHANGED <<mirror, loadedPlugins, scripts, received>>
         [] OTHER ->
              /\ sync' = [sync EXCEPT !.pc = "done"]
              /\ UNCHANGED <<mirror, loadedPlugins, scripts, received>>
    /\ lastOp' = "sync"
    /\ UNCHANGED <<hasSyncFn, busVars, pushes, widgets>>
    /\ UNCHANGED notSyncVars

\* A mutant of NextAttempt: the loop test is i <= 5.
NextAttemptOneMore(s) ==
    IF s.i + 1 <= SyncAttempts
    THEN PerformSync([s EXCEPT !.i = @ + 1])
    ELSE [s EXCEPT !.i = @ + 1, !.pc = "done"]

\* `i++` and the loop test `i < 5` of line 339: the next attempt, or the end
NextAttempt(s) ==
    IF s.i + 1 < SyncAttempts
    THEN PerformSync([s EXCEPT !.i = @ + 1])
    ELSE [s EXCEPT !.i = @ + 1, !.pc = "done"]

\* The 100 ms timer of line 342 fires: i++, and the next attempt if i < 5
SyncSleepDone ==
    /\ sync.pc = "sleep"
    /\ sync' = NextAttempt(sync)
    /\ lastOp' = "sync"
    /\ UNCHANGED <<hasSyncFn, busVars, mirror, received, pushes, loadedPlugins, scripts,
                   widgets>>
    /\ UNCHANGED notSyncVars

\* window.pytron_sync_state is installed or removed (read at 327)
SetSyncFn ==
    /\ hasSyncFn' = ~hasSyncFn
    /\ UNCHANGED <<sync, busVars, mirror, stateVars>>
    /\ UNCHANGED notSyncVars

-----------------------------------------------------------------------------
(* SpecSync *)

\* The updates the backend pushes while the initial sync runs.
SyncPayloads == {Upd("k", Str("1")), Upd("k", Str("2")), Upd("plugins", List(<<PluginP>>))}

\* The stable client right after load: cb2 subscribed to 'pytron:state'.
InitSync ==
    /\ variant = "stable"
    /\ nativeBridge \in BOOLEAN
    /\ winPytron = Facade
    /\ globals = {}
    /\ pywebviewApi = [present |-> FALSE, methods |-> {}]
    /\ call = IdleCall
    /\ signalSeen = FALSE
    /\ StateInitial
    /\ AssetInitial
    /\ DomInitial
    /\ mirror = EmptyMirror
    /\ delivered = <<>>
    /\ lastDispatch = NoEvent
    /\ hist = <<[op |-> "on", ev |-> "pytron:state", cb |-> "cb2"]>>
    /\ winListeners = <<[type |-> "pytron:state", w |-> 1, cb |-> "cb2"]>>
    /\ eventWrappers = [cb \in Callbacks |-> IF cb = "cb2" THEN 1 ELSE 0]
    /\ nextWrapper = 1
    /\ listeners = NoListeners
    /\ hasSyncFn \in BOOLEAN
    /\ sync = IdleSync
    /\ FacadeInitial
    /\ NoThrowers

NextSync ==
    \/ SyncWaitDone
    \/ \E t \in {"snapshot", "null", "reject"} : BackendReplies(t)
    \/ SyncContinue
    \/ SyncSleepDone
    \/ SetSyncFn
    \/ SetNativeBridge
    \/ \E payload \in SyncPayloads : StateUpdate(payload)

SpecSync == InitSync /\ [][NextSync]_vars

\* The timers of the event loop fire (waitForBackend resolves within its timeout,
\* the 100 ms sleep ends), the continuation of a settled await runs, and the
\* backend answers a call it was sent.
FairSpecSync ==
    /\ InitSync /\ [][NextSync]_vars
    /\ WF_vars(SyncWaitDone)
    /\ WF_vars(SyncSleepDone)
    /\ WF_vars(SyncContinue)
    /\ WF_vars(\E t \in {"snapshot", "null", "reject"} : BackendReplies(t))

-----------------------------------------------------------------------------
(* Claims about the initial sync *)

\* C11: once the initial sync is over, for every key the backend has pushed the
\* mirror holds the value of the most recent push of that key.
C11_MirrorMatchesPushes ==
    sync.pc = "done" =>
        \A k \in MirrorKeys :
            LET vs == PushedValues(pushes, k) IN
            vs # <<>> => mirror[k] = vs[Len(vs)]

C12_PluginScriptOnce ==
    \A plugin \in PluginDescriptors :
        (plugin.ui_entry # "" /\ plugin.name \in loadedPlugins) =>
            Cardinality(ScriptsOf(plugin.name)) = 1

-----------------------------------------------------------------------------
(* The Proxy get handler of the stable client: index.js 268-282 *)

\* A mutant of GetResult: the ignored keys are tested before the local ones.
GetResultIgnoredFirst(prop) ==
    IF prop.sym \/ prop.name \in {"then", "toJSON"} THEN UndefinedValue(prop)
    ELSE IF prop \in bound THEN LocalValue(prop)
    ELSE Callable(prop)

\* A mutant of GetResult: 'then' is not among the ignored keys.
GetResultThenCallable(prop) ==
    IF prop \in bound THEN LocalValue(prop)
    ELSE IF prop.sym \/ prop.name = "toJSON" THEN UndefinedValue(prop)
    ELSE Callable(prop)

\* get(target, prop): target[prop] when `prop in target`; undefined for a symbol,
\* 'then' and 'toJSON'; else the async wrapper for String(prop)   (269-282)
GetResult(prop) ==
    IF prop \in bound THEN LocalValue(prop)
    ELSE IF prop.sym \/ prop.name \in {"then", "toJSON"} THEN UndefinedValue(prop)
    ELSE Callable(prop)

\* The page reads pytron[prop].
Get(prop) ==
    /\ lastGet' = GetResult(prop)
    /\ UNCHANGED <<bound, callVars>>
    /\ UNCHANGED notFacadeVars

\* The page assigns pytron[prop] = value: the Proxy has no set trap, the key is
\* defined on pytronApi.
SetProperty(prop) ==
    /\ prop \notin bound
    /\ bound' = bound \cup {prop}
    /\ UNCHANGED <<lastGet, callVars>>
    /\ UNCHANGED notFacadeVars

\* The page calls the wrapper its latest read returned.
InvokeGot(args) ==
    /\ lastGet.kind = "callable"
    /\ CallStart(lastGet.name, args)

-----------------------------------------------------------------------------
(* SpecFacade *)

\* The keys the page reads, and those it assigns.
ReadKeys ==
    {Sym("iterator"), Name("then"), Name("toJSON"), Name("foo"), Name("close"),
     Name("on"), Name("state"), Name("toString")}
AssignedKeys == {Sym("iterator"), Name("then"), Name("foo")}

InitFacade ==
    /\ variant = "stable"
    /\ CallInitial
    /\ BusInitial
    /\ StateInitial
    /\ AssetInitial
    /\ DomInitial
    /\ SyncInitial
    /\ FacadeInitial
    /\ NoThrowers
    /\ mirror = EmptyMirror

NextFacade ==
    \/ \E prop \in ReadKeys : Get(prop)
    \/ \E prop \in AssignedKeys : SetProperty(prop)
    \/ InvokeGot(<<>>)
    \/ PollTick
    \/ \E res \in TransportResults : TransportReturn(res)
    \/ SetNativeBridge

SpecFacade == InitFacade /\ [][NextFacade]_vars

-----------------------------------------------------------------------------
(* Claims about the Proxy get handler *)

Ignored(prop) == prop.sym \/ prop.name = "then" \/ prop.name = "toJSON"

\* C15: a read of a key bound on the API object returns the local value; a read of
\* an unbound symbol, 'then' or 'toJSON' returns undefined; a read of any other
\* unbound name returns a callable for that name; no read starts a readiness wait
\* or a call or invokes a transport, and a call that starts is the call of the
\* callable the latest read returned, under that name.
C15_GetHandler ==
    /\ [](/\ lastGet.kind = "local" => lastGet.prop \in bound
          /\ lastGet.kind = "undefined" => Ignored(lastGet.prop)
          /\ lastGet.kind = "callable" =>
                (~Ignored(lastGet.prop) /\ lastGet.name = lastGet.prop.name))
    /\ [][/\ lastGet' # lastGet =>
              /\ call' = call
              /\ lastGet'.kind = IF lastGet'.prop \in bound THEN "local"
                                 ELSE IF Ignored(lastGet'.prop) THEN "undefined"
                                 ELSE "callable"
          /\ (call.pc \in {"idle", "done"} /\ call' # call) =>
              /\ lastGet.kind = "callable"
              /\ call'.name = lastGet.name
      ]_vars

\* 'then' was read and gave undefined, with no call ever started
C15_Witness ==
    /\ lastGet = [prop |-> [sym |-> FALSE, name |-> "then"], kind |-> "undefined",
                  name |-> ""]
    /\ call = IdleCall

-----------------------------------------------------------------------------
(* Internal event registry of the stable client: index.js 68-86; dispatcher of
   the early client: part_001 61-65 *)

\* listeners[event].forEach(cb => { try { cb(data) } catch (e) { console.error } })
\* (81-83): every callback is invoked
EmitCalls(cbs, arg) == [i \in 1..Len(cbs) |-> [cb |-> cbs[i], arg |-> arg]]

\* pytronApi.events.on(event, callback)   (70-73)
EventsOn(event, cb) ==
    /\ variant = "stable"
    /\ Len(hist) < MaxBusOps
    /\ listeners' = [listeners EXCEPT ![event] = Append(@, cb)]
    /\ hist' = Append(hist, [op |-> "on", ev |-> event, cb |-> cb])
    /\ delivered' = <<>>
    /\ lastDispatch' = NoEvent
    /\ UNCHANGED <<variant, winListeners, eventWrappers, nextWrapper, mirror>>
    /\ UNCHANGED notBusVars

\* pytronApi.events.off(event, callback)   (74-77)
EventsOff(event, cb) ==
    /\ variant = "stable"
    /\ Len(hist) < MaxBusOps
    /\ listeners' = [listeners EXCEPT ![event] = SelectSeq(@, LAMBDA x : x # cb)]
    /\ hist' = Append(hist, [op |-> "off", ev |-> event, cb |-> cb])
    /\ delivered' = <<>>
    /\ lastDispatch' = NoEvent
    /\ UNCHANGED <<variant, winListeners, eventWrappers, nextWrapper, mirror>>
    /\ UNCHANGED notBusVars

\* pytronApi.events.emit(event, data)   (79-85)
EventsEmit(event, data) ==
    /\ variant = "stable"
    /\ delivered' = EmitCalls(listeners[event], data)
    /\ lastDispatch' = [type |-> event, detail |-> data]
    /\ UNCHANGED <<variant, winListeners, eventWrappers, nextWrapper, listeners, hist, mirror>>
    /\ UNCHANGED notBusVars

\* window.__pytron_dispatch(event, data) of part_001 (61-65)
EarlyDispatchEvent(event, data) ==
    /\ variant = "early"
    /\ delivered' = Calls(listeners[event], data)
    /\ lastDispatch' = [type |-> event, detail |-> data]
    /\ UNCHANGED <<variant, winListeners, eventWrappers, nextWrapper, listeners, hist, mirror>>
    /\ UNCHANGED notBusVars

-----------------------------------------------------------------------------
(* SpecEmit *)

\* Any of the three clients, with callbacks that may throw.
InitEmit ==
    /\ variant \in {"stable", "autowait", "early"}
    /\ CallInitial
    /\ BusInitial
    /\ mirror = EmptyMirror
    /\ StateInitial
    /\ AssetInitial
    /\ DomInitial
    /\ SyncInitial
    /\ bound = {Name(n) : n \in OwnKeys \cup InheritedKeys}
    /\ lastGet = NothingGot
    /\ throwers \in SUBSET Callbacks

NextEmit ==
    \/ \E e \in EventNames, cb \in Callbacks : EventsOn(e, cb)
    \/ \E e \in EventNames, cb \in Callbacks : EventsOff(e, cb)
    \/ \E e \in EventNames, d \in BusPayloads : EventsEmit(e, d)
    \/ \E e \in EventNames, cb \in Callbacks : LegacyOn(e, cb)
    \/ \E e \in EventNames, cb \in Callbacks : LegacyOff(e, cb)
    \/ \E e \in EventNames, d \in BusPayloads : LegacyDispatchEvent(e, d)
    \/ \E e \in EventNames, d \in BusPayloads : EarlyDispatchEvent(e, d)

SpecEmit == InitEmit /\ [][NextEmit]_vars

-----------------------------------------------------------------------------
(* Claims about delivery through the registries *)

\* C16: a delivery of event e with payload d has invoked every callback registered
\* for e, each with d, in registration order, whether or not a callback threw.
C16_DeliversToAll ==
    \A e \in EventNames, d \in BusPayloads :
        lastDispatch = [type |-> e, detail |-> d] =>
            delivered = [i \in 1..Len(listeners[e]) |-> [cb |-> listeners[e][i], arg |-> d]]

\* A resolution started by the watcher for element el is in flight.
InFlight(el) == domCall[el].pc \in {"vap", "legacy"}

\* C22: no element has more than one watcher-started resolution in flight, and an
\* element holds the guard flag only while its resolution is in flight: the flag
\* of an element of the document, and of a script the watcher put in the document,
\* is clear whenever no resolution of that element is pending.
C22_GuardHeldOnlyInFlight ==
    /\ \A el \in Elements :
          /\ doc[el].inflight <= 1
          /\ doc[el].inflight = (IF InFlight(el) THEN 1 ELSE 0)
          /\ doc[el].loading <=> InFlight(el)
    /\ \A i \in 1..Len(created) : ~created[i].loading

\* The object URLs created for element el and not revoked.
Unrevoked(urls, el) == {i \in 1..Len(urls) : urls[i].el = el /\ ~urls[i].revoked}

\* C23: for every element that is no script, the unrevoked object URLs created for
\* it are at most one, the one the element remembers; and each step in which the
\* watcher assigns an object URL to the element ends with that URL in src/href,
\* the only unrevoked one of the element, the one held before being revoked.
C23_OneLiveObjectUrl ==
    /\ [](\A el \in Elements : doc[el].tag # "SCRIPT" =>
            /\ Cardinality(Unrevoked(objectUrls, el)) <= 1
            /\ Unrevoked(objectUrls, el) = (IF doc[el].blobUrl = 0 THEN {}
                                            ELSE {doc[el].blobUrl}))
    /\ [][\A el \in Elements :
            (doc[el].tag # "SCRIPT" /\ doc'[el].blobUrl # doc[el].blobUrl) =>
               /\ doc'[el].blobUrl = Len(objectUrls')
               /\ doc'[el].url = BlobUrl(doc'[el].blobUrl)
               /\ Unrevoked(objectUrls', el) = {doc'[el].blobUrl}
               /\ doc[el].blobUrl # 0 => objectUrls'[doc[el].blobUrl].revoked]_vars

\* C23 as stated: once the watcher runs, every non-script element of the document
\* with no resolution pending has at most one unrevoked object URL, and that URL is
\* the value of its src/href.
C23_LiveUrlIsCurrentSrc ==
    observing =>
        \A el \in Elements :
            (doc[el].present /\ doc[el].tag # "SCRIPT" /\ ~InFlight(el)) =>
                /\ Cardinality(Unrevoked(objectUrls, el)) <= 1
                /\ \A i \in Unrevoked(objectUrls, el) : doc[el].url = BlobUrl(i)

\* an <img> resolved twice: its first object URL revoked, its src the second
C23_Witness ==
    /\ doc["el1"].tag = "IMG" /\ doc["el1"].blobUrl = 2 /\ doc["el1"].url = BlobUrl(2)
    /\ Len(objectUrls) = 2
    /\ objectUrls[1].el = "el1" /\ objectUrls[1].revoked
    /\ objectUrls[2].el = "el1" /\ ~objectUrls[2].revoked

\* C25: an element given a reserved-scheme URL of another key while the resolution
\* of its previous key was in flight does not end, once no resolution is pending,
\* with the object URL of an asset resolved for another key than the one it was
\* last given in its src/href.
C25_LastGivenKeyWins ==
    \A el \in Elements :
        (/\ observing /\ doc[el].present /\ doc[el].racedKey # <<>>
         /\ \A x \in Elements : ~InFlight(x)) =>
            \A i \in 1..Len(objectUrls) :
                doc[el].url = BlobUrl(i) => objectUrls[i].key = doc[el].racedKey

-----------------------------------------------------------------------------
(* Attach to window at module load: index.js 500-518 *)

\* window.pytron after the attach step, existing being window.pytron before it and
\* ownReady whether existing has an is_ready property of its own.  With no object,
\* or one that is no proxy, window.pytron becomes the Proxy over pytronApi, whose
\* is_ready (61) is overwritten by Object.assign with the one of existing (507) and
\* whose __is_proxy stays true (62); a proxy already there is left (503).  The
\* backend objects of the model have no state and no __is_proxy property.
AttachResult(existing, ownReady) ==
    IF existing.present /\ existing.is_proxy
    THEN existing
    ELSE [present |-> TRUE,
          is_ready |-> IF existing.present /\ ownReady THEN existing.is_ready ELSE TRUE,
          is_proxy |-> TRUE]

\* The module is evaluated in the page: the attach step (502-512)
Attach(ownReady) ==
    /\ variant = "stable"
    /\ lastOp = "none"
    /\ (winPytron.present /\ winPytron.is_ready) => ownReady
    /\ winPytron' = AttachResult(winPytron, ownReady)
    /\ lastOp' = "attach"
    /\ UNCHANGED <<variant, nativeBridge, globals, pywebviewApi, call, signalSeen>>
    /\ UNCHANGED <<busVars, mirror, received, pushes, loadedPlugins, scripts, widgets>>
    /\ UNCHANGED <<assetVars, domVars, syncVars, facadeVars, throwers>>

\* The page before the module is evaluated: the backend may have installed its
\* bridge, its window.pytron object and its global functions.
InitAttach ==
    /\ variant = "stable"
    /\ nativeBridge \in BOOLEAN
    /\ winPytron \in WinPytronValues
    /\ globals \in SUBSET GlobalNames
    /\ pywebviewApi = NoPywebview
    /\ call = IdleCall
    /\ signalSeen = FALSE
    /\ BusInitial
    /\ mirror = EmptyMirror
    /\ StateInitial
    /\ AssetInitial
    /\ DomInitial
    /\ SyncInitial
    /\ FacadeInitial
    /\ NoThrowers

NextAttach ==
    \/ \E ownReady \in BOOLEAN : Attach(ownReady)
    \/ SetNativeBridge
    \/ \E v \in WinPytronValues : SetWinPytron(v)
    \/ \E g \in GlobalNames : DefineGlobal(g)
    \/ \E g \in GlobalNames : DeleteGlobal(g)

SpecAttach == InitAttach /\ [][NextAttach]_vars

\* C26: an attach step taken while isBackendReady() holds because window.pytron is
\* an object of the backend with a truthy is_ready ends with isBackendReady() still
\* holding; and after an attach step the object in window.pytron is not a
\* readiness signal of its own.
C26_AttachKeepsVerdict ==
    [][(lastOp = "none" /\ lastOp' = "attach") =>
        /\ (winPytron.present /\ winPytron.is_ready /\ ~winPytron.is_proxy) =>
               (isBackendReady /\ isBackendReady')
        /\ ~(winPytron'.present /\ winPytron'.is_ready /\ ~winPytron'.is_proxy)]_vars


=============================================================================
